---- MODULE Spec2Model ----
(***************************************************************************)
(* zoink: the directory index of internal/database/database.go.            *)
(*                                                                         *)
(* The model has three layers:                                             *)
(*   - pure operators: fixed-width integers, the little-endian binary      *)
(*     codec (save / writeEntry / load / readEntry), filepath.Clean,       *)
(*     filepath.Base and contains;                                         *)
(*   - the Entry Store: a Go map from path to *DirectoryEntry, modelled    *)
(*     as a map from path to an object id plus a heap of records, so that  *)
(*     the pointer aliasing between the map and the slices returned by     *)
(*     GetAll is part of the state;                                        *)
(*   - the file system: a directory with the two names db.path and         *)
(*     db.path + ".tmp", inodes holding bytes, and per-thread open file    *)
(*     descriptors with their own offsets.                                 *)
(*                                                                         *)
(* Strings are sequences of byte values.  uint32 values are pairs of       *)
(* 16-bit limbs <<lo, hi>> so that the full 32-bit width is kept.          *)
(***************************************************************************)
EXTENDS Integers, Sequences, FiniteSets, TLC

----------------------------------------------------------------------------
(* Bytes and characters *)

Slash == 47

Dot == 46

Limb == 256 * 256

\* uint32 as <<lo, hi>>, value = lo + 65536 * hi
U32Of(n) == <<n % Limb, (n \div Limb) % Limb>>

U32Zero == <<0, 0>>

U32One == <<1, 0>>

U32Max == <<Limb - 1, Limb - 1>>

\* v++ on a uint32 (wraps at 2^32)
U32Inc(v) ==
    IF v[1] < Limb - 1 THEN <<v[1] + 1, v[2]>>
    ELSE IF v[2] < Limb - 1 THEN <<0, v[2] + 1>>
    ELSE <<0, 0>>

U32Less(a, b) == a[2] < b[2] \/ (a[2] = b[2] /\ a[1] < b[1])

U32Leq(a, b) == a = b \/ U32Less(a, b)

\* the four bytes of a uint32 with the most significant byte first
BE32(v) == <<v[2] \div 256, v[2] % 256, v[1] \div 256, v[1] % 256>>

\* binary.Write(w, binary.LittleEndian, uint32)
LE32(v) == <<v[1] % 256, v[1] \div 256, v[2] % 256, v[2] \div 256>>

\* binary.Read(r, binary.LittleEndian, *uint32) on 4 bytes
FromLE32(b) == <<b[1] + 256 * b[2], b[3] + 256 * b[4]>>

\* binary.Write(w, binary.LittleEndian, int64): two's complement, 8 bytes.
\* Timestamps of the model lie in the 32-bit range; the upper four bytes
\* are the sign extension.
LE64(v) ==
    LET ext == IF v < 0 THEN 255 ELSE 0
    IN  <<v % 256, (v \div 256) % 256, (v \div 65536) % 256,
          (v \div 16777216) % 256, ext, ext, ext, ext>>

\* binary.Read(r, binary.LittleEndian, *int64) on 8 bytes (sign-extended
\* 32-bit range)
FromLE64(b) ==
    LET top == IF b[8] >= 128 THEN b[4] - 256 ELSE b[4]
    IN  b[1] + 256 * b[2] + 65536 * b[3] + 16777216 * top

----------------------------------------------------------------------------
(* filepath.Clean, filepath.Base, contains *)

RECURSIVE Comps(_, _, _)
\* the components of s between separators, empty ones included
Comps(s, i, acc) ==
    IF i > Len(s) THEN <<acc>>
    ELSE IF s[i] = Slash THEN <<acc>> \o Comps(s, i + 1, <<>>)
    ELSE Comps(s, i + 1, Append(acc, s[i]))

RECURSIVE Resolve(_, _, _)
\* drops empty and "." components, resolves ".." against the stack
Resolve(cs, stack, rooted) ==
    IF cs = <<>> THEN stack
    ELSE LET c == Head(cs)
             n == Len(stack)
         IN  IF c = <<>> \/ c = <<Dot>> THEN Resolve(Tail(cs), stack, rooted)
             ELSE IF c = <<Dot, Dot>> THEN
                 IF n > 0 /\ stack[n] # <<Dot, Dot>>
                 THEN Resolve(Tail(cs), SubSeq(stack, 1, n - 1), rooted)
                 ELSE IF rooted THEN Resolve(Tail(cs), stack, rooted)
                 ELSE Resolve(Tail(cs), Append(stack, c), rooted)
             ELSE Resolve(Tail(cs), Append(stack, c), rooted)

RECURSIVE Join(_)
Join(cs) ==
    IF cs = <<>> THEN <<>>
    ELSE IF Len(cs) = 1 THEN cs[1]
    ELSE cs[1] \o <<Slash>> \o Join(Tail(cs))

\* filepath.Clean (Unix): purely lexical
Clean(s) ==
    IF s = <<>> THEN <<Dot>>
    ELSE LET rooted == s[1] = Slash
             body == Join(Resolve(Comps(s, 1, <<>>), <<>>, rooted))
         IN  IF rooted THEN <<Slash>> \o body
             ELSE IF body = <<>> THEN <<Dot>> ELSE body

RECURSIVE StripTrailing(_)
StripTrailing(s) ==
    IF Len(s) > 0 /\ s[Len(s)] = Slash
    THEN StripTrailing(SubSeq(s, 1, Len(s) - 1))
    ELSE s

\* filepath.Base (Unix)
Base(s) ==
    IF s = <<>> THEN <<Dot>>
    ELSE LET t == StripTrailing(s)
         IN  IF t = <<>> THEN <<Slash>>
             ELSE LET cs == Comps(t, 1, <<>>) IN cs[Len(cs)]

\* the ASCII lower-casing loops of contains
ToLower(s) == [i \in 1..Len(s) |-> IF s[i] >= 65 /\ s[i] <= 90 THEN s[i] + 32 ELSE s[i]]

stringContains(s, substr) ==
    IF Len(substr) > Len(s) THEN FALSE
    ELSE \E i \in 0..(Len(s) - Len(substr)) :
            \A j \in 1..Len(substr) : s[i + j] = substr[j]

contains(path, query) ==
    Len(query) = 0 \/ stringContains(ToLower(Base(path)), ToLower(query))

----------------------------------------------------------------------------
(* DirectoryEntry and the binary codec *)

\* &DirectoryEntry{Path, VisitCount: 1, LastVisited: now, FirstVisited: now}
NewEntry(path, now) ==
    [Path |-> path, VisitCount |-> U32One, LastVisited |-> now, FirstVisited |-> now]

\* a visit that is not counted
IncrementVisitLost(e) == e

\* entry.VisitCount++
IncrementVisit(e) == [e EXCEPT !.VisitCount = U32Inc(@)]

\* entry.LastVisited = now
StampVisit(e, now) == [e EXCEPT !.LastVisited = now]

\* 0x5A4F494E ("ZOIN") as a uint32
Magic == <<18766, 23119>>

\* uint32(1)
Version == U32One

\* the two timestamps written in the wrong order
writeEntrySwapped(e) ==
    << LE32(U32Of(Len(e.Path))), e.Path, LE32(e.VisitCount),
       LE64(e.FirstVisited), LE64(e.LastVisited) >>

\* writeEntry: the five Write calls made for one entry, in order
writeEntry(e) ==
    << LE32(U32Of(Len(e.Path))), e.Path, LE32(e.VisitCount),
       LE64(e.LastVisited), LE64(e.FirstVisited) >>

RECURSIVE EntryChunks(_)
EntryChunks(recs) ==
    IF recs = <<>> THEN <<>> ELSE writeEntry(Head(recs)) \o EntryChunks(Tail(recs))

\* save: the sequence of Write calls for the entries taken in the order
\* recs of one map iteration (magic, version, entry count, then entries)
saveChunks(recs) ==
    << LE32(Magic), LE32(Version), LE32(U32Of(Len(recs))) >> \o EntryChunks(recs)

RECURSIVE Flatten(_)
Flatten(chunks) ==
    IF chunks = <<>> THEN <<>> ELSE Head(chunks) \o Flatten(Tail(chunks))

\* the bytes of a file written completely by one save
Serialize(recs) == Flatten(saveChunks(recs))

Slice(bytes, pos, n) == SubSeq(bytes, pos, pos + n - 1)

\* a uint32 used as a loop bound or length: anything with a non-zero
\* high limb exceeds every file of the model
U32Int(v) == IF v[2] > 0 THEN Limb ELSE v[1]

\* a readEntry that does not look at the errors of its reads: what is
\* missing from the file is read as zero bytes
readEntryLenient(bytes, pos) ==
    LET pad4 == bytes \o [i \in 1..(pos + 4) |-> 0]
        plen == U32Int(FromLE32(Slice(pad4, pos, 4)))
        pad == bytes \o [i \in 1..(pos + plen + 24) |-> 0]
        p1 == pos + 4
        p2 == p1 + plen
    IN  [ok |-> TRUE, next |-> p2 + 20,
         entry |-> [Path |-> Slice(pad, p1, plen),
                    VisitCount |-> FromLE32(Slice(pad, p2, 4)),
                    LastVisited |-> FromLE64(Slice(pad, p2 + 4, 8)),
                    FirstVisited |-> FromLE64(Slice(pad, p2 + 12, 8))]]

\* readEntry at byte position pos (1-based); ok = FALSE on a short read
readEntry(bytes, pos) ==
    LET n == Len(bytes)
        bad == [ok |-> FALSE, next |-> pos, entry |-> NewEntry(<<>>, 0)]
    IN  IF pos + 3 > n THEN bad
        ELSE LET plen == U32Int(FromLE32(Slice(bytes, pos, 4)))
                 p1 == pos + 4
                 p2 == p1 + plen
             IN  IF p2 - 1 > n THEN bad
                 ELSE IF p2 + 3 > n THEN bad
                 ELSE IF p2 + 11 > n THEN bad
                 ELSE IF p2 + 19 > n THEN bad
                 ELSE [ok |-> TRUE, next |-> p2 + 20,
                       entry |-> [Path |-> Slice(bytes, p1, plen),
                                  VisitCount |-> FromLE32(Slice(bytes, p2, 4)),
                                  LastVisited |-> FromLE64(Slice(bytes, p2 + 4, 8)),
                                  FirstVisited |-> FromLE64(Slice(bytes, p2 + 12, 8))]]

RECURSIVE ReadEntries(_, _, _, _)
\* the entry loop of load: remaining entries to read from pos
ReadEntries(bytes, pos, remaining, acc) ==
    IF remaining = 0 THEN [ok |-> TRUE, err |-> "none", recs |-> acc]
    ELSE LET r == readEntry(bytes, pos)
         IN  IF r.ok THEN ReadEntries(bytes, r.next, remaining - 1, Append(acc, r.entry))
             ELSE [ok |-> FALSE, err |-> "io", recs |-> <<>>]

\* a load that does not compare the version field
loadAnyVersion(bytes) ==
    LET n == Len(bytes)
        fail(k) == [ok |-> FALSE, err |-> k, recs |-> <<>>]
    IN  IF n < 4 THEN fail("io")
        ELSE IF FromLE32(Slice(bytes, 1, 4)) # Magic THEN fail("format")
        ELSE IF n < 12 THEN fail("io")
        ELSE ReadEntries(bytes, 13, U32Int(FromLE32(Slice(bytes, 9, 4))), <<>>)

\* load on the bytes of an existing file: the records in file order, or
\* the error kind ("io": a short read, "format": "invalid database
\* format", "version": "unsupported database version")
load(bytes) ==
    LET n == Len(bytes)
        fail(k) == [ok |-> FALSE, err |-> k, recs |-> <<>>]
    IN  IF n < 4 THEN fail("io")
        ELSE IF FromLE32(Slice(bytes, 1, 4)) # Magic THEN fail("format")
        ELSE IF n < 8 THEN fail("io")
        ELSE IF FromLE32(Slice(bytes, 5, 4)) # Version THEN fail("version")
        ELSE IF n < 12 THEN fail("io")
        ELSE ReadEntries(bytes, 13, U32Int(FromLE32(Slice(bytes, 9, 4))), <<>>)

\* db.entries[entry.Path] = entry for the records in order: for each path
\* the last record wins
LoadedIndex(recs, p) ==
    CHOOSE i \in 1..Len(recs) :
        recs[i].Path = p /\ \A j \in (i + 1)..Len(recs) : recs[j].Path # p

LoadedPaths(recs) == {recs[i].Path : i \in 1..Len(recs)}

\* len(matches) after the truncation of Query, for maxResults >= 0
QueryLen(recset, query, maxResults) ==
    LET m == Cardinality({e \in recset : contains(e.Path, query)})
    IN  IF m > maxResults THEN maxResults ELSE m

----------------------------------------------------------------------------
(* State *)

VARIABLES
    dbOf,       \* thread -> the Database instance it uses (two threads with
                \* the same instance are goroutines of one process, with
                \* different instances they are two processes)
    opened,     \* Database -> New has returned a handle
    entries,    \* Database -> db.entries: path -> object id (a pointer)
    heap,       \* object id -> DirectoryEntry (the objects pointed to)
    mutex,      \* Database -> db.mutex: writer (0 = none) and reader set
    pc,         \* thread -> position inside the running operation
    arg,        \* thread -> entry and clock value of the running AddVisit
    ret,        \* thread -> result of the last completed operation
    snap,       \* thread -> the pointers of the slice GetAll or Query returned
    obs,        \* thread -> what the last read through a returned pointer saw
    dir,        \* file name ("db" = db.path, "tmp" = db.path + ".tmp") -> inode, 0 = absent
    inodes,     \* inode -> bytes
    fd,         \* thread -> open file of save: inode and offset
    wq,         \* thread -> Write calls save still has to make
    faults,     \* I/O failures the environment may still inject
    saving,     \* thread -> the records the running Save serializes
    lastRename, \* the thread whose rename succeeded last, 0 = none yet
    visits,     \* Database -> path -> AddVisit calls since the path was absent
    cmd,        \* thread -> CLI command run by the process
    stage,      \* thread -> position inside the CLI handler
    pre,        \* thread -> the target file as the caller of the running Save
                \* found it when it made the call
    fz          \* one call of fuzzyMatch: its arguments and what it returned
                \* (and those of a second call, when two scores are compared)

apiVars == <<dbOf, opened, entries, heap, mutex, pc, arg, ret, snap, obs,
             dir, inodes, fd, wq, faults, saving, lastRename, visits>>

\* the state of the callers of the store
cliVars == <<cmd, stage, pre, fz>>

vars == <<dbOf, opened, entries, heap, mutex, pc, arg, ret, snap, obs,
          dir, inodes, fd, wq, faults, saving, lastRename, visits,
          cmd, stage, pre, fz>>

memVars == <<opened, entries, heap, mutex, arg, snap, obs, visits>>

fsVars == <<dir, inodes, fd, wq, faults, saving, lastRename>>

Threads == {1, 2}

DBs == {1, 2}

\* bounds of the model
MaxObjs == 4

MaxTime == 1

MaxVisits == 2

MaxFaults == 1

ObjIds == 1..MaxObjs

InoIds == 1..(Cardinality(Threads) + 2)

\* values time.Now().Unix() may return; the clock is not assumed monotonic
Times == 0..MaxTime

PathA == <<47, 97>>

PathB == <<47, 66>>

\* arguments of AddVisit / RemoveDirectory: "/a", "/a/" and "/B"
RawPaths == {PathA, <<47, 97, 47>>, PathB}

\* relative arguments: "foo" and "./a/../b"
RelPaths == { <<102, 111, 111>>, <<46, 47, 97, 47, 46, 46, 47, 98>> }

\* the keys the store can hold
CleanPaths == {Clean(r) : r \in RawPaths \cup RelPaths}

NoFd == [ino |-> 0, off |-> 0]

NoArg == [id |-> 0, now |-> 0]

NoObs == "none"

NoVisits == [n |-> 0, first |-> 0, last |-> 0, tracked |-> FALSE]

\* no call of fuzzyMatch
NoMatch == [text |-> <<>>, pattern |-> <<>>, raw |-> FALSE, can |-> FALSE,
            score |-> 0, done |-> FALSE,
            text2 |-> <<>>, pattern2 |-> <<>>, score2 |-> 0, done2 |-> FALSE]

Result(err, n) == [err |-> err, n |-> n]

Range(f) == {f[x] : x \in DOMAIN f}

\* a delete that removes nothing
RestrictKeepAll(f, S) == f

\* the map f after delete of every key outside S
Restrict(f, S) == [x \in (DOMAIN f) \cap S |-> f[x]]

\* the records of a store
Records(d) == {heap[entries[d][p]] : p \in DOMAIN entries[d]}

\* objects still referenced: by a map, by a returned slice, or by a
\* running AddVisit (everything else is garbage)
Reachable(ents, sn, ar) ==
    UNION {Range(ents[d]) : d \in DBs} \cup UNION {sn[t] : t \in Threads}
        \cup {ar[t].id : t \in Threads}

Sweep(h, ents, sn, ar) == Restrict(h, Reachable(ents, sn, ar))

FreeIds(h) == ObjIds \ DOMAIN h

\* the k smallest free object ids
SmallestFree(h, k) ==
    {i \in FreeIds(h) : Cardinality({j \in FreeIds(h) : j < i}) < k}

\* a Lock that does not wait for the readers
LockFreeOfWriters(d) == mutex[d].w = 0

\* db.mutex.Lock() can be taken: no writer and no reader holds the lock
LockFree(d) == mutex[d].w = 0 /\ mutex[d].r = {}

\* an RLock that does not wait for the writer
NoWriterUnchecked(d) == TRUE

\* db.mutex.RLock() can be taken: no writer holds the lock
NoWriter(d) == mutex[d].w = 0

\* the target file: <<>> when absent, <<bytes>> otherwise
FileAt(di, ino, name) == IF di[name] = 0 THEN <<>> ELSE <<ino[di[name]]>>

Target == FileAt(dir, inodes, "db")

\* inodes with a name or an open descriptor; the others are reclaimed
LiveInodes(di, f) == ({di["db"], di["tmp"]} \cup {f[t].ino : t \in Threads}) \ {0}

Reclaim(ino, di, f) == Restrict(ino, LiveInodes(di, f))

FreshInode(ino) == CHOOSE i \in InoIds \ DOMAIN ino : \A j \in InoIds \ DOMAIN ino : i <= j

\* write(2) of bytes at offset off: overwrites, extends, zero-fills a hole
WriteAt(data, off, bytes) ==
    LET end == off + Len(bytes)
        n == IF end > Len(data) THEN end ELSE Len(data)
    IN  [i \in 1..n |-> IF i > off /\ i <= end THEN bytes[i - off]
                        ELSE IF i <= Len(data) THEN data[i] ELSE 0]

\* the orders in which one range over a map may visit the records
Orders(S) ==
    {s \in [1..Cardinality(S) -> S] : \A i, j \in 1..Cardinality(S) : i # j => s[i] # s[j]}

----------------------------------------------------------------------------
(* Entry Store operations *)

StatResults == {"ok", "notexist", "error"}

\* a mutation that also empties the index file
NoFileIOTruncating ==
    /\ inodes' = [i \in DOMAIN inodes |-> IF i = dir["db"] THEN <<>> ELSE inodes[i]]
    /\ UNCHANGED <<dir, fd, wq, faults, saving, lastRename>>

\* AddVisit, RemoveDirectory, CleanupMissing, Query and GetAll make no
\* file system call that creates, writes, renames or removes a file
NoFileIO == UNCHANGED fsVars

\* New: load of the target file.  A missing file gives the empty store;
\* a file load rejects gives no handle.
Open(t) ==
    LET d == dbOf[t]
        r == IF dir["db"] = 0 THEN [ok |-> TRUE, err |-> "none", recs |-> <<>>]
             ELSE load(inodes[dir["db"]])
        ps == LoadedPaths(r.recs)
        ids == SmallestFree(heap, Cardinality(ps))
        at == CHOOSE f \in [ps -> ids] : \A p, q \in ps : p # q => f[p] # f[q]
    IN  /\ pc[t] = "idle"
        /\ ~opened[d]
        /\ IF r.ok
           THEN /\ Cardinality(FreeIds(heap)) >= Cardinality(ps)
                /\ opened' = [opened EXCEPT ![d] = TRUE]
                /\ entries' = [entries EXCEPT ![d] = at]
                /\ heap' = [i \in ids |-> LET p == CHOOSE q \in ps : at[q] = i
                                          IN  r.recs[LoadedIndex(r.recs, p)]] @@ heap
                /\ visits' = [visits EXCEPT ![d] =
                                 [p \in CleanPaths |-> [NoVisits EXCEPT !.tracked = p \notin ps]]]
           ELSE UNCHANGED <<opened, entries, heap, visits>>
        /\ ret' = [ret EXCEPT ![t] = Result(r.err, 0)]
        /\ UNCHANGED <<dbOf, mutex, pc, arg, snap, obs>>
        /\ UNCHANGED fsVars

\* AddVisit up to and including entry.VisitCount++ (existing entry), or
\* the whole call (new entry); the write lock is taken here
AddVisit(t, raw, now) ==
    LET d == dbOf[t]
        cleanPath == Clean(raw)
    IN  /\ pc[t] = "idle"
        /\ opened[d]
        /\ LockFree(d)
        /\ visits[d][cleanPath].n < MaxVisits
        /\ IF cleanPath \in DOMAIN entries[d]
           THEN LET id == entries[d][cleanPath]
                IN  /\ heap' = [heap EXCEPT ![id] = IncrementVisit(@)]
                    /\ mutex' = [mutex EXCEPT ![d].w = t]
                    /\ pc' = [pc EXCEPT ![t] = "stamp"]
                    /\ arg' = [arg EXCEPT ![t] = [id |-> id, now |-> now]]
                    /\ UNCHANGED <<entries, ret>>
           ELSE /\ FreeIds(heap) # {}
                /\ LET id == CHOOSE i \in SmallestFree(heap, 1) : TRUE
                   IN  /\ heap' = (id :> NewEntry(cleanPath, now)) @@ heap
                       /\ entries' = [entries EXCEPT ![d] = (cleanPath :> id) @@ @]
                /\ ret' = [ret EXCEPT ![t] = Result("none", 0)]
                /\ UNCHANGED <<mutex, pc, arg>>
        /\ visits' = [visits EXCEPT ![d][cleanPath] =
                         [n |-> @.n + 1,
                          first |-> IF @.n = 0 THEN now ELSE @.first,
                          last |-> now,
                          tracked |-> @.tracked]]
        /\ UNCHANGED <<dbOf, opened, snap, obs>>
        /\ NoFileIO

\* AddVisit from entry.LastVisited = now to the deferred Unlock
AddVisitStamp(t) ==
    LET d == dbOf[t]
    IN  /\ pc[t] = "stamp"
        /\ heap' = [heap EXCEPT ![arg[t].id] = StampVisit(@, arg[t].now)]
        /\ mutex' = [mutex EXCEPT ![d].w = 0]
        /\ pc' = [pc EXCEPT ![t] = "idle"]
        /\ arg' = [arg EXCEPT ![t] = NoArg]
        /\ ret' = [ret EXCEPT ![t] = Result("none", 0)]
        /\ UNCHANGED <<dbOf, opened, entries, snap, obs, visits>>
        /\ NoFileIO

RemoveDirectory(t, raw) ==
    LET d == dbOf[t]
        cleanPath == Clean(raw)
        ents == [entries EXCEPT ![d] = Restrict(@, (DOMAIN @) \ {cleanPath})]
    IN  /\ pc[t] = "idle"
        /\ opened[d]
        /\ LockFree(d)
        /\ entries' = ents
        /\ heap' = Sweep(heap, ents, snap, arg)
        /\ visits' = [visits EXCEPT ![d][cleanPath] = [NoVisits EXCEPT !.tracked = TRUE]]
        /\ ret' = [ret EXCEPT ![t] = Result("none", 0)]
        /\ UNCHANGED <<dbOf, opened, mutex, pc, arg, snap, obs>>
        /\ NoFileIO

\* stat[p] is the outcome of os.Stat(p) for the paths p of the store at
\* the time of the call; only os.IsNotExist(err) removes the entry
CleanupMissing(t, stat) ==
    LET d == dbOf[t]
        gone == {p \in DOMAIN entries[d] : stat[p] = "notexist"}
        ents == [entries EXCEPT ![d] = Restrict(@, (DOMAIN @) \ gone)]
    IN  /\ pc[t] = "idle"
        /\ opened[d]
        /\ LockFree(d)
        /\ entries' = ents
        /\ heap' = Sweep(heap, ents, snap, arg)
        /\ visits' = [visits EXCEPT ![d] =
                         [p \in CleanPaths |->
                            IF p \in gone THEN [NoVisits EXCEPT !.tracked = TRUE] ELSE @[p]]]
        /\ ret' = [ret EXCEPT ![t] = Result("none", Cardinality(gone))]
        /\ UNCHANGED <<dbOf, opened, mutex, pc, arg, snap, obs>>
        /\ NoFileIO

\* GetAll: the returned slice holds the map's pointers
GetAll(t) ==
    LET d == dbOf[t]
        sn == [snap EXCEPT ![t] = Range(entries[d])]
    IN  /\ pc[t] = "idle"
        /\ opened[d]
        /\ NoWriter(d)
        /\ snap' = sn
        /\ heap' = Sweep(heap, entries, sn, arg)
        /\ ret' = [ret EXCEPT ![t] = Result("none", Cardinality(Range(entries[d])))]
        /\ UNCHANGED <<dbOf, opened, entries, mutex, pc, arg, obs, visits>>
        /\ NoFileIO

\* the caller of GetAll reads entry.VisitCount and entry.LastVisited
\* through a returned pointer; no lock is involved.  The read is "torn"
\* when an AddVisit on this entry is between its two assignments, so that
\* the new VisitCount is read together with the old LastVisited.
ReadEntry(t, i) ==
    /\ pc[t] = "idle"
    /\ i \in snap[t]
    /\ obs' = [obs EXCEPT ![t] =
                 IF \E u \in Threads :
                        /\ pc[u] = "stamp"
                        /\ arg[u].id = i
                        /\ arg[u].now # heap[i].LastVisited
                 THEN "torn" ELSE "whole"]
    /\ UNCHANGED <<dbOf, opened, entries, heap, mutex, pc, arg, ret, snap, visits>>
    /\ UNCHANGED fsVars

----------------------------------------------------------------------------
(* Save: RLock, then save step by step (each system call is one step) *)

\* a Save that returns an error without the RUnlock
SaveReturnLocked(t, err, f) ==
    /\ pc' = [pc EXCEPT ![t] = "idle"]
    /\ mutex' = IF err = "none" THEN [mutex EXCEPT ![dbOf[t]].r = @ \ {t}] ELSE mutex
    /\ ret' = [ret EXCEPT ![t] = Result(err, 0)]
    /\ fd' = f
    /\ wq' = [wq EXCEPT ![t] = <<>>]

\* Save returns: the deferred file.Close and RUnlock have run
SaveReturn(t, err, f) ==
    /\ pc' = [pc EXCEPT ![t] = "idle"]
    /\ mutex' = [mutex EXCEPT ![dbOf[t]].r = @ \ {t}]
    /\ ret' = [ret EXCEPT ![t] = Result(err, 0)]
    /\ fd' = f
    /\ wq' = [wq EXCEPT ![t] = <<>>]

\* Save / Close: db.mutex.RLock()
SaveBegin(t) ==
    LET d == dbOf[t]
    IN  /\ pc[t] = "idle"
        /\ opened[d]
        /\ NoWriter(d)
        /\ mutex' = [mutex EXCEPT ![d].r = @ \cup {t}]
        /\ pc' = [pc EXCEPT ![t] = "create"]
        /\ saving' = [saving EXCEPT ![t] = Records(d)]
        /\ UNCHANGED <<dbOf, opened, entries, heap, arg, ret, snap, obs, visits>>
        /\ UNCHANGED <<dir, inodes, fd, wq, faults, lastRename>>

\* os.Create(tempPath): O_CREATE|O_TRUNC on the sibling name.  The order
\* of the coming range over db.entries is fixed here.
SaveCreate(t) ==
    LET d == dbOf[t]
    IN  /\ pc[t] = "create"
        /\ \/ \E order \in Orders(Records(d)) :
                LET ino == IF dir["tmp"] # 0 THEN dir["tmp"] ELSE FreshInode(inodes)
                IN  /\ dir' = [dir EXCEPT !["tmp"] = ino]
                    /\ inodes' = (ino :> <<>>) @@ inodes
                    /\ fd' = [fd EXCEPT ![t] = [ino |-> ino, off |-> 0]]
                    /\ wq' = [wq EXCEPT ![t] = saveChunks(order)]
                    /\ pc' = [pc EXCEPT ![t] = "write"]
                    /\ UNCHANGED <<mutex, ret, faults>>
           \/ /\ faults > 0
              /\ faults' = faults - 1
              /\ SaveReturn(t, "create", fd)
              /\ UNCHANGED <<dir, inodes>>
        /\ UNCHANGED <<dbOf, opened, entries, heap, arg, snap, obs, visits>>
        /\ UNCHANGED <<saving, lastRename>>

\* one binary.Write / w.Write call on the temp file; on an error save
\* returns at once (the temp file stays)
SaveWrite(t) ==
    /\ pc[t] = "write"
    /\ wq[t] # <<>>
    /\ \/ /\ inodes' = [inodes EXCEPT ![fd[t].ino] = WriteAt(@, fd[t].off, Head(wq[t]))]
          /\ fd' = [fd EXCEPT ![t].off = @ + Len(Head(wq[t]))]
          /\ wq' = [wq EXCEPT ![t] = Tail(@)]
          /\ UNCHANGED <<mutex, pc, ret, faults>>
       \/ /\ faults > 0
          /\ faults' = faults - 1
          /\ SaveReturn(t, "write", [fd EXCEPT ![t] = NoFd])
          /\ inodes' = Reclaim(inodes, dir, [fd EXCEPT ![t] = NoFd])
    /\ UNCHANGED <<dbOf, opened, entries, heap, arg, snap, obs, visits>>
    /\ UNCHANGED <<dir, saving, lastRename>>

\* file.Close() after the last entry; its result is not looked at
SaveClose(t) ==
    /\ pc[t] = "write"
    /\ wq[t] = <<>>
    /\ fd' = [fd EXCEPT ![t] = NoFd]
    /\ inodes' = Reclaim(inodes, dir, [fd EXCEPT ![t] = NoFd])
    /\ pc' = [pc EXCEPT ![t] = "rename"]
    /\ UNCHANGED <<dbOf, opened, entries, heap, mutex, arg, ret, snap, obs, visits>>
    /\ UNCHANGED <<dir, wq, faults, saving, lastRename>>

\* os.Rename(tempPath, db.path); on an error os.Remove(tempPath)
SaveRename(t) ==
    /\ pc[t] = "rename"
    /\ \/ /\ dir["tmp"] # 0
          /\ LET di == [db |-> dir["tmp"], tmp |-> 0]
             IN  /\ dir' = di
                 /\ inodes' = Reclaim(inodes, di, fd)
          /\ lastRename' = t
          /\ SaveReturn(t, "none", fd)
          /\ UNCHANGED faults
       \/ /\ dir["tmp"] = 0 \/ faults > 0
          /\ faults' = IF dir["tmp"] = 0 THEN faults ELSE faults - 1
          /\ LET di == [dir EXCEPT !["tmp"] = 0]
             IN  /\ dir' = di
                 /\ inodes' = Reclaim(inodes, di, fd)
          /\ SaveReturn(t, "rename", fd)
          /\ UNCHANGED lastRename
    /\ UNCHANGED <<dbOf, opened, entries, heap, arg, snap, obs, visits>>
    /\ UNCHANGED saving

----------------------------------------------------------------------------
(* SpecMem: one process, two goroutines calling the Entry Store *)

InitCommon ==
    /\ mutex = [d \in DBs |-> [w |-> 0, r |-> {}]]
    /\ pc = [t \in Threads |-> "idle"]
    /\ arg = [t \in Threads |-> NoArg]
    /\ ret = [t \in Threads |-> Result("none", 0)]
    /\ snap = [t \in Threads |-> {}]
    /\ obs = [t \in Threads |-> NoObs]
    /\ fd = [t \in Threads |-> NoFd]
    /\ wq = [t \in Threads |-> <<>>]
    /\ pre = [t \in Threads |-> <<>>]
    /\ saving = [t \in Threads |-> {}]
    /\ lastRename = 0

Entry(p, c, l, f) == [Path |-> p, VisitCount |-> c, LastVisited |-> l, FirstVisited |-> f]

\* stores the program can hold when it starts serving calls: empty, one
\* entry visited once, and a heavily visited entry next to a fresh one
MemStores ==
    { <<>>,
      <<Entry(PathA, U32One, 0, 0)>>,
      <<Entry(PathA, U32Max, 1, 0), Entry(PathB, U32One, 1, 1)>> }

\* the state New leaves for a file holding recs (distinct paths)
StoreOf(d, recs) ==
    /\ opened = [x \in DBs |-> x = d]
    /\ entries = [x \in DBs |-> IF x = d THEN [p \in LoadedPaths(recs) |-> LoadedIndex(recs, p)]
                                 ELSE <<>>]
    /\ heap = [i \in 1..Len(recs) |-> recs[i]]
    /\ visits = [x \in DBs |-> [p \in CleanPaths |->
                    [NoVisits EXCEPT !.tracked = x = d /\ p \notin LoadedPaths(recs)]]]

InitMem ==
    /\ InitCommon
    /\ fz = NoMatch
    /\ dbOf = [t \in Threads |-> 1]
    /\ \E recs \in MemStores : StoreOf(1, recs)
    /\ dir = [db |-> 0, tmp |-> 0]
    /\ inodes = <<>>
    /\ faults = 0
    /\ cmd = [t \in Threads |-> "api"]
    /\ stage = [t \in Threads |-> "api"]

MemAddVisit ==
    \E t \in Threads, raw \in RawPaths, now \in Times :
        AddVisit(t, raw, now) /\ UNCHANGED cliVars

MemAddVisitStamp == \E t \in Threads : AddVisitStamp(t) /\ UNCHANGED cliVars

MemRemoveDirectory ==
    \E t \in Threads, raw \in RawPaths : RemoveDirectory(t, raw) /\ UNCHANGED cliVars

MemCleanupMissing ==
    \E t \in Threads : \E stat \in [DOMAIN entries[dbOf[t]] -> StatResults] :
        CleanupMissing(t, stat) /\ UNCHANGED cliVars

NextMem ==
    \/ MemAddVisit
    \/ MemAddVisitStamp
    \/ MemRemoveDirectory
    \/ MemCleanupMissing

SpecMem == InitMem /\ [][NextMem]_vars

----------------------------------------------------------------------------
(* SpecAlias: two goroutines of one process, callers of GetAll that keep *)
(* and read the returned records while the store is mutated; one path    *)

AliasPaths == {PathA, <<47, 97, 47>>}

AliasStores == { <<>>, <<Entry(PathA, U32One, 0, 0)>> }

InitAlias ==
    /\ InitCommon
    /\ fz = NoMatch
    /\ dbOf = [t \in Threads |-> 1]
    /\ \E recs \in AliasStores : StoreOf(1, recs)
    /\ dir = [db |-> 0, tmp |-> 0]
    /\ inodes = <<>>
    /\ faults = 0
    /\ cmd = [t \in Threads |-> "api"]
    /\ stage = [t \in Threads |-> "api"]

AliasAddVisit ==
    \E t \in Threads, raw \in AliasPaths, now \in Times :
        AddVisit(t, raw, now) /\ UNCHANGED cliVars

AliasAddVisitStamp == \E t \in Threads : AddVisitStamp(t) /\ UNCHANGED cliVars

AliasRemoveDirectory ==
    \E t \in Threads, raw \in AliasPaths : RemoveDirectory(t, raw) /\ UNCHANGED cliVars

AliasCleanupMissing ==
    \E t \in Threads : \E stat \in [DOMAIN entries[dbOf[t]] -> StatResults] :
        CleanupMissing(t, stat) /\ UNCHANGED cliVars

AliasGetAll == \E t \in Threads : GetAll(t) /\ UNCHANGED cliVars

AliasReadEntry == \E t \in Threads, i \in ObjIds : ReadEntry(t, i) /\ UNCHANGED cliVars

NextAlias ==
    \/ AliasAddVisit
    \/ AliasAddVisitStamp
    \/ AliasRemoveDirectory
    \/ AliasCleanupMissing
    \/ AliasGetAll
    \/ AliasReadEntry

SpecAlias == InitAlias /\ [][NextAlias]_vars

----------------------------------------------------------------------------
(* SpecSave: two processes, each one run of a CLI command on the same   *)
(* index file: handleAdd, handleStats or handleNavigation               *)

Cmds == {"add", "stats", "find"}

ReadOnlyCmds == {"stats", "find"}

\* maxResults = 10 // sensible default
DefaultMaxResults == 10

\* query strings of handleNavigation: none, "a" and "zz"
Queries == {<<>>, <<97>>, <<122, 122>>}

\* files found on disk at the start: none, or one written by an earlier
\* run holding /a
SaveFiles == { <<>>, <<Serialize(<<Entry(PathA, U32One, 0, 0)>>)>> }

InitSave ==
    /\ InitCommon
    /\ fz = NoMatch
    /\ dbOf = [t \in Threads |-> t]
    /\ opened = [d \in DBs |-> FALSE]
    /\ entries = [d \in DBs |-> <<>>]
    /\ heap = <<>>
    /\ visits = [d \in DBs |-> [p \in CleanPaths |-> NoVisits]]
    /\ \E f \in SaveFiles :
          /\ dir = [db |-> Len(f), tmp |-> 0]
          /\ inodes = [i \in 1..Len(f) |-> f[i]]
    /\ faults = 0
    /\ cmd \in [Threads -> Cmds]
    /\ stage = [t \in Threads |-> "start"]

\* where the handler of thread t continues once the running call returned
Advance(t) ==
    /\ stage' = [stage EXCEPT ![t] =
          IF pc'[t] # "idle" THEN @
          ELSE CASE @ = "start" -> IF ret'[t].err # "none" THEN "exit"
                                   ELSE IF cmd[t] = "add" THEN "visit" ELSE "read"
                 [] @ = "visit" -> "save"
                 [] @ = "save"  -> IF ret'[t].err # "none" THEN "exit" ELSE "close"
                 [] @ = "close" -> "exit"
                 [] OTHER -> @]
    /\ UNCHANGED <<cmd, pre, fz>>

\* handleStats / handleNavigation: os.Stat(cfg.DatabasePath) says the
\* database does not exist; the handler returns or exits before New
CliNoDatabase ==
    \E t \in Threads :
        /\ stage[t] = "start"
        /\ cmd[t] \in ReadOnlyCmds
        /\ dir["db"] = 0
        /\ stage' = [stage EXCEPT ![t] = "exit"]
        /\ UNCHANGED <<cmd, pre, fz>>
        /\ UNCHANGED apiVars

\* database.New(dbConfig); on an error os.Exit(1)
CliOpen ==
    \E t \in Threads :
        /\ stage[t] = "start"
        /\ cmd[t] = "add" \/ dir["db"] # 0
        /\ Open(t)
        /\ Advance(t)

\* the directory the shell hook reports
CliPaths == {PathA}

\* handleAdd: db.AddVisit(absDir), absDir an absolute cleaned path
CliAddVisit ==
    \E t \in Threads, p \in CliPaths, now \in Times :
        /\ stage[t] = "visit"
        /\ AddVisit(t, p, now)
        /\ Advance(t)

CliAddVisitStamp == \E t \in Threads : AddVisitStamp(t) /\ Advance(t)

\* handleStats: db.GetAll(), then the report; every path from here
\* returns normally, so the deferred db.Close() runs
CliStatsRead ==
    \E t \in Threads :
        /\ stage[t] = "read"
        /\ cmd[t] = "stats"
        /\ pc[t] = "idle"
        /\ stage' = [stage EXCEPT ![t] = "close"]
        /\ UNCHANGED <<cmd, pre, fz>>
        /\ UNCHANGED apiVars

\* handleNavigation: db.GetAll() or db.Query(query, config.MaxResults);
\* os.Exit(1) (no deferred Close) when nothing matches outside list mode
\* or when the selection is cancelled, otherwise a normal return
CliFindRead ==
    \E t \in Threads, query \in Queries, listOnly \in BOOLEAN, cancelled \in BOOLEAN :
        LET n == IF query = <<>> THEN Cardinality(DOMAIN entries[dbOf[t]])
                 ELSE QueryLen(Records(dbOf[t]), query, DefaultMaxResults)
        IN  /\ stage[t] = "read"
            /\ cmd[t] = "find"
            /\ pc[t] = "idle"
            /\ stage' = [stage EXCEPT ![t] =
                  IF listOnly THEN "close"
                  ELSE IF n = 0 \/ cancelled THEN "exit" ELSE "close"]
            /\ UNCHANGED <<cmd, pre, fz>>
            /\ UNCHANGED apiVars

\* db.Save() of handleAdd, and the deferred db.Close() of every handler
CliSaveBegin ==
    \E t \in Threads :
        /\ stage[t] \in {"save", "close"}
        /\ SaveBegin(t)
        /\ Advance(t)

CliSaveCreate == \E t \in Threads : SaveCreate(t) /\ Advance(t)

CliSaveWrite == \E t \in Threads : SaveWrite(t) /\ Advance(t)

CliSaveClose == \E t \in Threads : SaveClose(t) /\ Advance(t)

CliSaveRename == \E t \in Threads : SaveRename(t) /\ Advance(t)

NextSave ==
    \/ CliNoDatabase
    \/ CliOpen
    \/ CliAddVisit
    \/ CliAddVisitStamp
    \/ CliStatsRead
    \/ CliFindRead
    \/ CliSaveBegin
    \/ CliSaveCreate
    \/ CliSaveWrite
    \/ CliSaveClose
    \/ CliSaveRename

SpecSave == InitSave /\ [][NextSave]_vars

----------------------------------------------------------------------------
(* SpecCodec: process 1 holds a store and calls Save, any number of      *)
(* times, with I/O failures; after a successful Save process 2 opens the *)
(* file                                                                  *)

CodecEntries ==
    { Entry(PathA, U32One, 0, 0),
      Entry(PathA, <<258, 0>>, 258, 1),
      Entry(PathB, <<2, 1>>, 1, -1),
      Entry(<<47, 97, 47, 66>>, U32Max, 1700000000, 258) }

\* the stores of at most two entries over CodecEntries
CodecStores ==
    {<<>>} \cup {<<e>> : e \in CodecEntries}
           \cup {<<e, f>> : e, f \in CodecEntries}

InitCodec ==
    /\ InitCommon
    /\ fz = NoMatch
    /\ dbOf = [t \in Threads |-> t]
    /\ \E recs \in CodecStores :
          /\ Cardinality(LoadedPaths(recs)) = Len(recs)
          /\ StoreOf(1, recs)
    /\ dir = [db |-> 0, tmp |-> 0]
    /\ inodes = <<>>
    /\ faults = MaxFaults
    /\ cmd = [t \in Threads |-> "api"]
    /\ stage = [t \in Threads |-> "api"]

CodecSaveBegin ==
    /\ SaveBegin(1)
    /\ pre' = [pre EXCEPT ![1] = Target]
    /\ UNCHANGED <<cmd, stage, fz>>

CodecSaveCreate == SaveCreate(1) /\ UNCHANGED cliVars

CodecSaveWrite == SaveWrite(1) /\ UNCHANGED cliVars

CodecSaveClose == SaveClose(1) /\ UNCHANGED cliVars

CodecSaveRename == SaveRename(1) /\ UNCHANGED cliVars

\* New in a second process, after a Save of process 1 has succeeded
CodecOpen ==
    /\ pc[1] = "idle"
    /\ lastRename = 1
    /\ Open(2)
    /\ UNCHANGED cliVars

NextCodec ==
    \/ CodecSaveBegin
    \/ CodecSaveCreate
    \/ CodecSaveWrite
    \/ CodecSaveClose
    \/ CodecSaveRename
    \/ CodecOpen

SpecCodec == InitCodec /\ [][NextCodec]_vars

----------------------------------------------------------------------------
(* Claims about the file *)

\* the complete files: the ones found at the start and the complete
\* serializations of the store of a process that has called Save
CompleteImages ==
    {f[1] : f \in SaveFiles \ {<<>>}}
        \cup UNION {{Serialize(o) : o \in Orders(saving[t])} : t \in Threads}

\* C1: the index file is absent, or holds its previous complete contents
\* or the complete serialization of one store snapshot; never a partial
\* file or a mix of two writers' bytes.
C1_TargetComplete == Target = <<>> \/ Target[1] \in CompleteImages

\* C2: when Save fails at any step it returns an error, the temp file
\* no longer exists and the target file is what it was before the call.
C2_FailedSaveClean ==
    [][\A t \in Threads :
          (pc[t] \in {"create", "write", "rename"} /\ pc'[t] = "idle"
                /\ ret'[t].err # "none") =>
             (dir'["tmp"] = 0 /\ Target' = pre[t])]_vars

\* C3: once two processes that each opened the file, recorded a visit
\* and saved have finished, the file holds exactly the store of the
\* process whose rename happened last.
C3_LastWriterWins ==
    ((\A t \in Threads : cmd[t] = "add" /\ stage[t] = "exit") /\ lastRename # 0) =>
        /\ Target # <<>>
        /\ load(Target[1]).ok
        /\ Len(load(Target[1]).recs) = Cardinality(saving[lastRename])
        /\ Range(load(Target[1]).recs) = saving[lastRename]

\* thread t takes the step
Acts(t) == <<pc[t], stage[t], wq[t], fd[t]>>' # <<pc[t], stage[t], wq[t], fd[t]>>

\* no other thread is inside a call, and thread t is not writing through
\* a descriptor of the file that is now the index file
Alone(t) ==
    /\ \A u \in Threads \ {t} : pc[u] = "idle"
    /\ (fd[t] = NoFd \/ fd[t].ino # dir["db"])

\* the records a process would load from the index file now
FileRecords ==
    IF Target = <<>> THEN [ok |-> TRUE, recs |-> {}]
    ELSE [ok |-> load(Target[1]).ok, recs |-> Range(load(Target[1]).recs)]

\* C4: no step of a process running a read-only command (stats, find)
\* changes the records stored in the index file, also when another
\* process has recorded and saved a visit since the command opened the
\* store (steps taken while no other process is inside a call, between
\* two loadable states of the file).
C4_ReadOnlyKeepsFile ==
    [][\A t \in Threads :
          (cmd[t] \in ReadOnlyCmds /\ Acts(t) /\ Alone(t)
                /\ FileRecords.ok /\ FileRecords'.ok) =>
             FileRecords'.recs = FileRecords.recs]_vars

\* C5: after a successful Save, Open on the same path succeeds and
\* yields the set of (Path, VisitCount, LastVisited, FirstVisited) tuples
\* held in memory at the Save, so that Query returns as many results as
\* before.
C5_RoundTrip ==
    /\ ret[2].err = "none"
    /\ opened[2] =>
         /\ Records(2) = Records(1)
         /\ Cardinality(DOMAIN entries[2]) = Cardinality(DOMAIN entries[1])
         /\ \A q \in Queries, m \in 0..MaxObjs :
               QueryLen(Records(2), q, m) = QueryLen(Records(1), q, m)

\* a store of two entries reopened, one with VisitCount 2^32-1 and one
\* with a negative timestamp
C5_Witness ==
    /\ opened[2]
    /\ Cardinality(Records(2)) = 2
    /\ \E e \in Records(2) : e.VisitCount = U32Max
    /\ \E e \in Records(2) : e.FirstVisited < 0

----------------------------------------------------------------------------
(* Claims about the Entry Store *)

Quiescent == \A t \in Threads : pc[t] = "idle"

\* C6: after N AddVisit calls for a path, starting from a store without
\* it and with no removal in between, the store holds exactly one entry
\* for the path, with VisitCount = N, FirstVisited = the clock value of
\* the first call and LastVisited = the clock value of the last call; and
\* AddVisit never returns an error.
C6_VisitsCounted ==
    /\ \A t \in Threads : ret[t].err = "none"
    /\ Quiescent =>
         \A p \in CleanPaths :
            LET v == visits[1][p]
            IN  (v.tracked /\ v.n >= 1) =>
                  /\ p \in DOMAIN entries[1]
                  /\ Cardinality({q \in DOMAIN entries[1] :
                                     heap[entries[1][q]].Path = p}) = 1
                  /\ heap[entries[1][p]].VisitCount = U32Of(v.n)
                  /\ heap[entries[1][p]].FirstVisited = v.first
                  /\ heap[entries[1][p]].LastVisited = v.last

\* a path visited MaxVisits times, with different clock values at the
\* first and the last call
C6_Witness ==
    /\ Quiescent
    /\ \E p \in CleanPaths :
          /\ visits[1][p].tracked
          /\ visits[1][p].n = MaxVisits
          /\ visits[1][p].first # visits[1][p].last
          /\ p \in DOMAIN entries[1]
          /\ heap[entries[1][p]].VisitCount = U32Of(MaxVisits)

\* C7: between operations every entry of an open store has
\* FirstVisited <= LastVisited and VisitCount >= 1, and no two entries
\* have the same Path.
C7_EntryInvariants ==
    Quiescent =>
      \A d \in DBs :
        /\ \A p \in DOMAIN entries[d] :
              /\ heap[entries[d][p]].FirstVisited <= heap[entries[d][p]].LastVisited
              /\ U32Leq(U32One, heap[entries[d][p]].VisitCount)
        /\ \A p, q \in DOMAIN entries[d] :
              heap[entries[d][p]].Path = heap[entries[d][q]].Path => p = q

\* C8: while an entry exists, no step changes its FirstVisited, lowers
\* its LastVisited or lowers its VisitCount.
C8_Monotonic ==
    [][\A d \in DBs : \A p \in (DOMAIN entries[d]) \cap (DOMAIN entries'[d]) :
          entries'[d][p] = entries[d][p] =>
            /\ heap'[entries[d][p]].FirstVisited = heap[entries[d][p]].FirstVisited
            /\ heap'[entries[d][p]].LastVisited >= heap[entries[d][p]].LastVisited
            /\ U32Leq(heap[entries[d][p]].VisitCount, heap'[entries[d][p]].VisitCount)]_vars

\* C9: the records GetAll returned keep the field values they had at the
\* time of the call: no later step changes a record a caller still holds.
C9_SnapshotStable ==
    [][\A t \in Threads : \A i \in snap[t] \cap snap'[t] : heap'[i] = heap[i]]_vars

\* C10: no reader sees an entry whose VisitCount was incremented by an
\* AddVisit while its LastVisited is still the old one.
C10_NoTornRead == \A t \in Threads : obs[t] # "torn"

----------------------------------------------------------------------------
(* SpecLock: one process, two goroutines sharing one store: both mutate  *)
(* it, one of them saves it and the other lists it, under db.mutex       *)

LockPaths == {PathA, <<47, 97, 47>>}

LockStores == { <<>>, <<Entry(PathA, U32One, 0, 0)>> }

InitLock ==
    /\ InitCommon
    /\ fz = NoMatch
    /\ dbOf = [t \in Threads |-> 1]
    /\ \E recs \in LockStores : StoreOf(1, recs)
    /\ \E f \in SaveFiles :
          /\ dir = [db |-> Len(f), tmp |-> 0]
          /\ inodes = [i \in 1..Len(f) |-> f[i]]
    /\ faults = 0
    /\ cmd = [t \in Threads |-> "api"]
    /\ stage = [t \in Threads |-> "api"]

\* the clock of this specification stands at MaxTime
LockAddVisit ==
    \E t \in Threads, raw \in LockPaths :
        AddVisit(t, raw, MaxTime) /\ UNCHANGED cliVars

LockAddVisitStamp == \E t \in Threads : AddVisitStamp(t) /\ UNCHANGED cliVars

LockRemoveDirectory ==
    \E t \in Threads, raw \in LockPaths : RemoveDirectory(t, raw) /\ UNCHANGED cliVars

LockCleanupMissing ==
    \E t \in Threads : \E stat \in [DOMAIN entries[dbOf[t]] -> StatResults] :
        CleanupMissing(t, stat) /\ UNCHANGED cliVars

\* goroutine 2 is the one that lists the store
LockGetAll == GetAll(2) /\ UNCHANGED cliVars

\* goroutine 1 is the one that saves
LockSaveBegin == SaveBegin(1) /\ UNCHANGED cliVars

LockSaveCreate == SaveCreate(1) /\ UNCHANGED cliVars

LockSaveWrite == SaveWrite(1) /\ UNCHANGED cliVars

LockSaveClose == SaveClose(1) /\ UNCHANGED cliVars

LockSaveRename == SaveRename(1) /\ UNCHANGED cliVars

NextLock ==
    \/ LockAddVisit
    \/ LockAddVisitStamp
    \/ LockRemoveDirectory
    \/ LockCleanupMissing
    \/ LockGetAll
    \/ LockSaveBegin
    \/ LockSaveCreate
    \/ LockSaveWrite
    \/ LockSaveClose
    \/ LockSaveRename

SpecLock == InitLock /\ [][NextLock]_vars

----------------------------------------------------------------------------
(* Claims about locking and persistence *)

\* the positions of a thread inside Save, from RLock to RUnlock
SaveStages == {"create", "write", "rename"}

\* the Write calls a save of the records S still has to make, for some
\* order of the range over the map
IsRestOfSave(q, S) ==
    \E o \in Orders(S) :
        \E k \in 0..Len(saveChunks(o)) :
            q = SubSeq(saveChunks(o), k + 1, Len(saveChunks(o)))

\* C11: from the moment Save holds the read lock until it returns, the
\* store is the one found when the lock was taken: no mutation is half
\* done or takes effect, and the header and entries still to be written
\* are those of that one snapshot.
C11_SaveSnapshot ==
    \A t \in Threads :
        pc[t] \in SaveStages =>
            /\ Records(dbOf[t]) = saving[t]
            /\ \A u \in Threads : dbOf[u] = dbOf[t] => pc[u] # "stamp"
            /\ pc[t] = "write" => IsRestOfSave(wq[t], Records(dbOf[t]))

\* a Save is in the middle of its writes on a store that was visited
\* before, while the other goroutine is not inside a call
C11_Witness ==
    /\ pc[1] = "write"
    /\ fd[1].off > 0
    /\ wq[1] # <<>>
    /\ saving[1] # {}
    /\ visits[1][PathA].n > 0
    /\ pc[2] = "idle"

\* C12: mutations are linearized: a writer is never inside a mutation
\* together with another writer or a reader, GetAll runs only between
\* two whole mutations, and K AddVisit calls of the goroutines on a path
\* the store did not hold end with one entry whose VisitCount is K.
C12_Linearized ==
    /\ [](/\ \A d \in DBs : mutex[d].w = 0 \/ mutex[d].r = {}
          /\ \A t \in Threads : pc[t] = "stamp" => mutex[dbOf[t]].w = t
          /\ Quiescent =>
               \A p \in CleanPaths :
                   (visits[1][p].tracked /\ visits[1][p].n > 0) =>
                       /\ p \in DOMAIN entries[1]
                       /\ heap[entries[1][p]].Path = p
                       /\ heap[entries[1][p]].VisitCount = U32Of(visits[1][p].n))
    /\ [][\A t \in Threads :
             snap'[t] # snap[t] => \A u \in Threads : pc[u] # "stamp"]_vars

\* both goroutines have visited "/a", absent before, and a GetAll has
\* returned its entry
C12_Witness ==
    /\ Quiescent
    /\ visits[1][PathA].tracked
    /\ visits[1][PathA].n = Cardinality(Threads)
    /\ heap[entries[1][PathA]].VisitCount = U32Of(Cardinality(Threads))
    /\ \E t \in Threads : snap[t] = {entries[1][PathA]}

\* a step in which no Save call starts or moves on
NoSaveStep ==
    \A t \in Threads :
        /\ pc[t] \in SaveStages => <<pc[t], wq[t], fd[t]>>' = <<pc[t], wq[t], fd[t]>>
        /\ pc[t] \notin SaveStages => pc'[t] \notin SaveStages

\* C13: AddVisit, RemoveDirectory, CleanupMissing and GetAll leave the
\* index file and the temp file as they are; GetAll returns the store as
\* the last mutation left it; once no Save is running, a store reopened
\* from the file holds the records of the last successful Save, without
\* the mutations made since.
C13_PersistOnSave ==
    /\ [][NoSaveStep => <<dir, inodes>>' = <<dir, inodes>>]_vars
    /\ [][\A t \in Threads :
             snap'[t] # snap[t] => snap'[t] = Range(entries'[dbOf[t]])]_vars
    /\ []((lastRename # 0 /\ \A t \in Threads : pc[t] \notin SaveStages) =>
             /\ FileRecords.ok
             /\ FileRecords.recs = saving[lastRename])

\* a Save has succeeded and the store has been mutated since: the file
\* still holds the saved records
C13_Witness ==
    /\ Quiescent
    /\ lastRename # 0
    /\ Records(1) # saving[lastRename]
    /\ Records(1) # {}
    /\ saving[lastRename] # {}
    /\ FileRecords.recs = saving[lastRename]

----------------------------------------------------------------------------
(* SpecLoad: two processes open an index file found on disk: well formed, *)
(* cut short at any byte, or with a foreign header                        *)

\* the bytes of the records recs, one after the other
RecordBytes(recs) == Flatten(EntryChunks(recs))

\* a file with the given first four bytes, version and entry count,
\* followed by the records recs
FileOf(magic, version, count, recs) ==
    magic \o LE32(version) \o LE32(U32Of(count)) \o RecordBytes(recs)

LoadRecords ==
    { <<>>,
      <<Entry(PathA, U32One, 0, 0)>>,
      <<Entry(PathA, U32One, 0, 0), Entry(PathB, <<2, 0>>, 1, 0)>>,
      <<Entry(PathA, U32One, 0, 0), Entry(PathA, <<2, 0>>, 1, 0)>> }

\* the file that is cut short
LongFile == Serialize(<<Entry(PathA, U32One, 0, 0), Entry(PathB, <<2, 0>>, 1, 0)>>)

\* first four bytes that are not the magic: zeros, one byte off, and the
\* magic in big-endian order
ForeignMagics == { <<0, 0, 0, 0>>, <<79, 73, 79, 90>>, <<90, 79, 73, 78>> }

ForeignVersions == { U32Zero, <<2, 0>>, <<1, 1>> }

\* the files found on disk: bytes, the records announced by the header in
\* file order, whether the file is well formed, whether it is cut short
LoadFiles ==
    {[bytes |-> Serialize(r), recs |-> r, valid |-> TRUE, cut |-> FALSE] : r \in LoadRecords}
    \cup {[bytes |-> FileOf(LE32(Magic), Version, 1, <<Entry(PathA, U32One, 0, 0),
                                                        Entry(PathB, <<2, 0>>, 1, 0)>>),
           recs |-> <<Entry(PathA, U32One, 0, 0)>>, valid |-> TRUE, cut |-> FALSE]}
    \cup {[bytes |-> SubSeq(LongFile, 1, k), recs |-> <<>>, valid |-> FALSE, cut |-> TRUE] :
             k \in 0..(Len(LongFile) - 1)}
    \cup {[bytes |-> FileOf(LE32(Magic), Version, 3, <<Entry(PathA, U32One, 0, 0)>>),
           recs |-> <<>>, valid |-> FALSE, cut |-> TRUE]}
    \cup {[bytes |-> m \o tail, recs |-> <<>>, valid |-> FALSE, cut |-> FALSE] :
             m \in ForeignMagics,
             tail \in {<<>>, SubSeq(LongFile, 5, Len(LongFile)), LE32(<<2, 0>>)}}
    \cup {[bytes |-> FileOf(LE32(Magic), v, Len(r), r), recs |-> <<>>,
           valid |-> FALSE, cut |-> FALSE] :
             v \in ForeignVersions, r \in {<<>>, <<Entry(PathA, U32One, 0, 0)>>}}
    \cup {[bytes |-> LE32(Magic) \o LE32(<<2, 0>>), recs |-> <<>>,
           valid |-> FALSE, cut |-> FALSE]}

InitLoad ==
    /\ InitCommon
    /\ fz = NoMatch
    /\ dbOf = [t \in Threads |-> t]
    /\ opened = [d \in DBs |-> FALSE]
    /\ entries = [d \in DBs |-> <<>>]
    /\ heap = <<>>
    /\ visits = [d \in DBs |-> [p \in CleanPaths |-> NoVisits]]
    /\ \/ dir = [db |-> 0, tmp |-> 0] /\ inodes = <<>>
       \/ \E f \in LoadFiles : dir = [db |-> 1, tmp |-> 0] /\ inodes = <<f.bytes>>
    /\ faults = 0
    /\ cmd = [t \in Threads |-> "api"]
    /\ stage = [t \in Threads |-> "api"]

LoadOpen == \E t \in Threads : Open(t) /\ UNCHANGED cliVars

LoadGetAll == \E t \in Threads : GetAll(t) /\ UNCHANGED cliVars

NextLoad ==
    \/ LoadOpen
    \/ LoadGetAll

SpecLoad == InitLoad /\ [][NextLoad]_vars

----------------------------------------------------------------------------
(* Claims about Open *)

\* what is known of the file on disk
FileInfo == CHOOSE f \in LoadFiles : Target # <<>> /\ f.bytes = Target[1]

\* the records of recs that are not followed by a record with the same path
LastOfPath(recs) ==
    {recs[i] : i \in {k \in 1..Len(recs) : \A j \in (k + 1)..Len(recs) : recs[j].Path # recs[k].Path}}

\* C14 as stated: Open gives a store holding every record announced by
\* entry_count, or fails and gives no store; on a file cut short at any
\* byte it fails.
C14_AllOrNothing ==
    \A t \in Threads :
        /\ (opened[dbOf[t]] /\ Target # <<>>) =>
              /\ FileInfo.valid
              /\ Cardinality(DOMAIN entries[dbOf[t]]) = Len(FileInfo.recs)
              /\ Records(dbOf[t]) = Range(FileInfo.recs)
        /\ ret[t].err # "none" => (~opened[dbOf[t]] /\ entries[dbOf[t]] = <<>>)
        /\ (Target # <<>> /\ FileInfo.cut) => ~opened[dbOf[t]]

\* C14 amended: Open gives a store holding, for every path among the
\* records announced by entry_count, the last announced record with that
\* path (all announced records when their paths differ), or fails and
\* gives no store; on a file cut short at any byte it fails.
C14_LoadLastWins ==
    \A t \in Threads :
        /\ (opened[dbOf[t]] /\ Target # <<>>) =>
              /\ FileInfo.valid
              /\ Records(dbOf[t]) = LastOfPath(FileInfo.recs)
              /\ \A p \in DOMAIN entries[dbOf[t]] : heap[entries[dbOf[t]][p]].Path = p
              /\ Cardinality(LastOfPath(FileInfo.recs)) = Len(FileInfo.recs) =>
                    Cardinality(DOMAIN entries[dbOf[t]]) = Len(FileInfo.recs)
        /\ ret[t].err # "none" => (~opened[dbOf[t]] /\ entries[dbOf[t]] = <<>>)
        /\ (Target # <<>> /\ FileInfo.cut) => ~opened[dbOf[t]]

\* a file announcing two records for "/a" has been opened: the store
\* holds the second one only
C14_Witness ==
    /\ Target # <<>>
    /\ Len(FileInfo.recs) = 2
    /\ opened[1]
    /\ Records(1) = {Entry(PathA, <<2, 0>>, 1, 0)}
    /\ snap[1] # {}

\* C15: a missing file gives an empty store and no error; first four
\* bytes other than 4E 49 4F 5A give the format error whatever follows; the
\* magic followed by a version other than 1 gives the version error; both
\* errors give no store, and the three outcomes differ.
C15_Classified ==
    \A t \in Threads :
        /\ Target = <<>> => (ret[t].err = "none" /\ entries[dbOf[t]] = <<>>)
        /\ (Target # <<>> /\ Len(Target[1]) >= 4
                /\ SubSeq(Target[1], 1, 4) # <<78, 73, 79, 90>>) =>
              /\ ret[t].err \in {"none", "format"}
              /\ ~opened[dbOf[t]] /\ entries[dbOf[t]] = <<>>
        /\ (Target # <<>> /\ Len(Target[1]) >= 8
                /\ SubSeq(Target[1], 1, 4) = <<78, 73, 79, 90>>
                /\ SubSeq(Target[1], 5, 8) # <<1, 0, 0, 0>>) =>
              /\ ret[t].err \in {"none", "version"}
              /\ ~opened[dbOf[t]] /\ entries[dbOf[t]] = <<>>
        /\ ret[t].err = "format" => SubSeq(Target[1], 1, 4) # <<78, 73, 79, 90>>
        /\ ret[t].err = "version" => SubSeq(Target[1], 1, 4) = <<78, 73, 79, 90>>

\* one process has been refused a file with the magic and version 2, of
\* which the rest is well formed
C15_Witness ==
    /\ Target # <<>>
    /\ Len(Target[1]) > 12
    /\ SubSeq(Target[1], 1, 8) = <<78, 73, 79, 90, 2, 0, 0, 0>>
    /\ ret[1].err = "version"
    /\ ~opened[1]

----------------------------------------------------------------------------
(* Claims about the file format *)

\* a 32-bit unsigned field of the file: least significant byte first
Field32(v) == <<v[1] % 256, v[1] \div 256, v[2] % 256, v[2] \div 256>>

\* a 64-bit signed field of the file, two's complement, least significant
\* byte first (values of 32-bit range)
Field64(x) ==
    [k \in 1..8 |-> IF k > 4 THEN (IF x < 0 THEN 255 ELSE 0)
                    ELSE CASE k = 1 -> x % 256
                           [] k = 2 -> (x \div 256) % 256
                           [] k = 3 -> (x \div 65536) % 256
                           [] k = 4 -> (x \div 16777216) % 256]

\* one record of the file
LayoutRecord(e) ==
    Field32(<<Len(e.Path), 0>>) \o e.Path \o Field32(e.VisitCount)
        \o Field64(e.LastVisited) \o Field64(e.FirstVisited)

RECURSIVE LayoutRecords(_)
LayoutRecords(recs) ==
    IF recs = <<>> THEN <<>> ELSE LayoutRecord(Head(recs)) \o LayoutRecords(Tail(recs))

\* the file of the records recs: 4E 49 4F 5A, version 1, entry_count, records
Layout(recs) ==
    <<78, 73, 79, 90>> \o <<1, 0, 0, 0>> \o Field32(<<Len(recs), 0>>) \o LayoutRecords(recs)

\* C16: the file a successful Save leaves is the magic, version 1, the
\* number of entries of the store and one record per entry of the store,
\* each path_len, path bytes, visit_count, last_visited, first_visited,
\* little-endian, with nothing after the last record.
C16_FileLayout ==
    lastRename # 0 =>
        /\ Target # <<>>
        /\ \E o \in Orders(Records(dbOf[lastRename])) : Target[1] = Layout(o)

\* a store of two entries has been saved, one of them with VisitCount
\* 2^32-1 and a timestamp of four significant bytes, the other with a
\* negative timestamp
C16_Witness ==
    /\ lastRename = 1
    /\ pc[1] = "idle"
    /\ ret[1].err = "none"
    /\ Cardinality(Records(1)) = 2
    /\ \E e \in Records(1) : e.VisitCount = U32Max /\ e.LastVisited = 1700000000
    /\ \E e \in Records(1) : e.FirstVisited < 0
    /\ Len(Target[1]) = 12 + 24 + 4 + 24 + 2

----------------------------------------------------------------------------
(* Claims about removal *)

\* C17: CleanupMissing removes exactly the entries whose path fails the
\* existence check at the time of the call, whether os.Stat reports that
\* the path does not exist or fails for another reason; it returns the
\* number of entries removed and leaves every other entry unchanged.
C17_CleanupExact ==
    [][\A t \in Threads : \A stat \in [DOMAIN entries[dbOf[t]] -> StatResults] :
          CleanupMissing(t, stat) =>
             /\ DOMAIN entries'[dbOf[t]] = {p \in DOMAIN entries[dbOf[t]] : stat[p] = "ok"}
             /\ ret'[t].n = Cardinality(DOMAIN entries[dbOf[t]])
                               - Cardinality(DOMAIN entries'[dbOf[t]])
             /\ \A p \in DOMAIN entries'[dbOf[t]] :
                   heap'[entries'[dbOf[t]][p]] = heap[entries[dbOf[t]][p]]]_vars

\* C18: RemoveDirectory(p) returns no error, deletes the entry stored
\* under the normalized form of p (the one AddVisit(q) creates for every
\* q with the same normalized form), changes nothing when there is none,
\* never changes another entry, and leaves a store on which a second
\* RemoveDirectory(p) changes nothing.
C18_RemoveExact ==
    [][\A t \in Threads, raw \in RawPaths :
          RemoveDirectory(t, raw) =>
             /\ ret'[t].err = "none"
             /\ \A q \in RawPaths :
                   Clean(q) = Clean(raw) => Clean(q) \notin DOMAIN entries'[dbOf[t]]
             /\ DOMAIN entries'[dbOf[t]] = (DOMAIN entries[dbOf[t]]) \ {Clean(raw)}
             /\ \A p \in DOMAIN entries'[dbOf[t]] :
                   heap'[entries'[dbOf[t]][p]] = heap[entries[dbOf[t]][p]]
             /\ Clean(raw) \notin DOMAIN entries[dbOf[t]] =>
                   (entries' = entries /\ Records(dbOf[t])' = Records(dbOf[t]))]_vars

\* "/a" has been removed from a store that held it next to "/B", and
\* "/B" is there as it was
C18_Witness ==
    /\ Quiescent
    /\ PathA \notin DOMAIN entries[1]
    /\ visits[1][PathA].tracked
    /\ visits[1][PathA].n = 0
    /\ ~visits[1][PathB].tracked
    /\ Records(1) = {Entry(PathB, U32One, 1, 1)}
    /\ \E t \in Threads : ret[t] = Result("none", 0)

----------------------------------------------------------------------------
(* SpecNorm: callers of the store that pass absolute and relative paths *)

NormPaths == {PathA, <<47, 97, 47>>} \cup RelPaths

InitNorm ==
    /\ InitCommon
    /\ fz = NoMatch
    /\ dbOf = [t \in Threads |-> 1]
    /\ \E recs \in LockStores : StoreOf(1, recs)
    /\ dir = [db |-> 0, tmp |-> 0]
    /\ inodes = <<>>
    /\ faults = 0
    /\ cmd = [t \in Threads |-> "api"]
    /\ stage = [t \in Threads |-> "api"]

NormAddVisit ==
    \E t \in Threads, raw \in NormPaths, now \in Times :
        AddVisit(t, raw, now) /\ UNCHANGED cliVars

NormAddVisitStamp == \E t \in Threads : AddVisitStamp(t) /\ UNCHANGED cliVars

NormRemoveDirectory ==
    \E t \in Threads, raw \in NormPaths : RemoveDirectory(t, raw) /\ UNCHANGED cliVars

NextNorm ==
    \/ NormAddVisit
    \/ NormAddVisitStamp
    \/ NormRemoveDirectory

SpecNorm == InitNorm /\ [][NextNorm]_vars

\* filepath.IsAbs (Unix)
IsAbs(p) == Len(p) > 0 /\ p[1] = Slash

\* C19: every entry's Path is an absolute, cleaned path, also after
\* AddVisit was called with a relative path.
C19_AbsoluteKeys ==
    \A d \in DBs : \A p \in DOMAIN entries[d] :
        /\ heap[entries[d][p]].Path = p
        /\ Clean(p) = p
        /\ IsAbs(p)

----------------------------------------------------------------------------
(* fuzzyMatch, canMatch, calculateFuzzyScore (indices are 0-based as in  *)
(* the source; strings are ASCII, so bytes and runes coincide)           *)

scoreMatch == 16

scoreCaseMatch == 1

scoreConsecutive == 32

scoreWordBoundary == 8

scoreFirstCharBonus == 32

penaltyLeading == -2

penaltyMaxLeading == -12

penaltyNonConsecutive == -1

\* '/', '-', '_', ' ', '.'
isWordBoundary(char) == char \in {47, 45, 95, 32, 46}

RECURSIVE canMatchFrom(_, _, _, _)
\* the loops of canMatch with pattern characters patternIdx.. still to
\* find and the text read up to textIdx
canMatchFrom(text, pattern, textIdx, patternIdx) ==
    IF patternIdx >= Len(pattern) THEN TRUE
    ELSE IF textIdx >= Len(text) THEN FALSE
    ELSE IF text[textIdx + 1] = pattern[patternIdx + 1]
         THEN canMatchFrom(text, pattern, textIdx + 1, patternIdx + 1)
         ELSE canMatchFrom(text, pattern, textIdx + 1, patternIdx)

canMatch(text, pattern) == canMatchFrom(text, pattern, 0, 0)

RECURSIVE scoreLoop(_, _, _, _, _)
\* the for loop of calculateFuzzyScore; st holds its local variables
scoreLoop(text, textLower, pattern, patternLower, st) ==
    IF ~(st.patternIdx < Len(pattern) /\ st.textIdx < Len(text)) THEN st
    ELSE IF patternLower[st.patternIdx + 1] = textLower[st.textIdx + 1]
         THEN LET currentScore ==
                      scoreMatch
                      + (IF pattern[st.patternIdx + 1] = text[st.textIdx + 1]
                         THEN scoreCaseMatch ELSE 0)
                      + (IF st.patternIdx = 0 THEN scoreFirstCharBonus ELSE 0)
                      + (IF st.consecutiveCount > 0 THEN scoreConsecutive ELSE 0)
                      + (IF st.textIdx = 0 \/ isWordBoundary(text[st.textIdx])
                         THEN scoreWordBoundary ELSE 0)
              IN  scoreLoop(text, textLower, pattern, patternLower,
                            [score |-> st.score + currentScore,
                             patternIdx |-> st.patternIdx + 1,
                             textIdx |-> st.textIdx + 1,
                             consecutiveCount |-> st.consecutiveCount + 1,
                             leadingPenalty |-> 0])
         ELSE scoreLoop(text, textLower, pattern, patternLower,
                        [score |-> st.score + (IF st.consecutiveCount > 0
                                               THEN penaltyNonConsecutive ELSE 0),
                         patternIdx |-> st.patternIdx,
                         textIdx |-> st.textIdx + 1,
                         consecutiveCount |-> 0,
                         leadingPenalty |->
                             IF st.patternIdx = 0 /\ st.leadingPenalty > penaltyMaxLeading
                             THEN st.leadingPenalty + penaltyLeading
                             ELSE st.leadingPenalty])

\* int(float64(len(pattern)) / float64(len(text)) * 50)
lengthBonus(pattern, text) == (Len(pattern) * 50) \div Len(text)

\* a scoring pass that compares the lower-cased strings for the case bonus
calculateFuzzyScoreCaseBlind(text, textLower, pattern, patternLower) ==
    LET st == scoreLoop(textLower, textLower, patternLower, patternLower,
                        [score |-> 0, patternIdx |-> 0, textIdx |-> 0,
                         consecutiveCount |-> 0, leadingPenalty |-> 0])
    IN  IF st.patternIdx < Len(pattern) THEN 0
        ELSE st.score + st.leadingPenalty + lengthBonus(pattern, text)

calculateFuzzyScore(text, textLower, pattern, patternLower) ==
    LET st == scoreLoop(text, textLower, pattern, patternLower,
                        [score |-> 0, patternIdx |-> 0, textIdx |-> 0,
                         consecutiveCount |-> 0, leadingPenalty |-> 0])
    IN  IF st.patternIdx < Len(pattern) THEN 0
        ELSE st.score + st.leadingPenalty + lengthBonus(pattern, text)

\* a fuzzyMatch that matches against the whole path
fuzzyMatchWholePath(text, pattern) ==
    IF Len(pattern) = 0 THEN 0
    ELSE IF ~canMatch(ToLower(text), ToLower(pattern)) THEN 0
    ELSE calculateFuzzyScore(text, ToLower(text), pattern, ToLower(pattern))

\* fuzzyMatch: strings.ToLower is the ASCII lower-casing on these strings
fuzzyMatch(text, pattern) ==
    IF Len(pattern) = 0 THEN 0
    ELSE IF ~canMatch(ToLower(Base(text)), ToLower(pattern)) THEN 0
    ELSE calculateFuzzyScore(Base(text), ToLower(Base(text)), pattern, ToLower(pattern))

----------------------------------------------------------------------------
(* SpecFuzzy: one call of fuzzyMatch and of canMatch on a path and a     *)
(* pattern                                                               *)

\* longest basename and longest pattern
FuzzyMaxText == 3

FuzzyMaxPattern == 2

\* the strings of up to n characters over the alphabet A
StringsUpTo(A, n) == UNION {[1..k -> A] : k \in 0..n}

\* "a", "A", "b", "-"
TextAlphabet == {97, 65, 98, 45}

\* "a", "B", "-"
PatternAlphabet == {97, 66, 45}

\* basenames alone and below the directory "/ab", and the empty string
FuzzyTexts ==
    {dirname \o base : dirname \in {<<>>, <<47, 97, 98, 47>>},
                       base \in StringsUpTo(TextAlphabet, FuzzyMaxText) \ {<<>>}}
        \cup {<<>>}

\* the patterns over the alphabet, and "."
FuzzyPatterns == StringsUpTo(PatternAlphabet, FuzzyMaxPattern) \cup {<<Dot>>}

InitFuzzy ==
    /\ InitCommon
    /\ dbOf = [t \in Threads |-> 1]
    /\ StoreOf(1, <<>>)
    /\ dir = [db |-> 0, tmp |-> 0]
    /\ inodes = <<>>
    /\ faults = 0
    /\ cmd = [t \in Threads |-> "api"]
    /\ stage = [t \in Threads |-> "api"]
    /\ \E text \in FuzzyTexts, pattern \in FuzzyPatterns :
          fz = [NoMatch EXCEPT !.text = text, !.pattern = pattern]

\* score := fuzzyMatch(text, pattern), and canMatch on the lower-cased
\* basename and pattern as fuzzyMatch calls it
FuzzyMatchCall ==
    /\ ~fz.done
    /\ fz' = [fz EXCEPT !.score = fuzzyMatch(fz.text, fz.pattern),
                        !.can = canMatch(ToLower(Base(fz.text)), ToLower(fz.pattern)),
                        !.done = TRUE]
    /\ UNCHANGED <<cmd, stage, pre>>
    /\ UNCHANGED apiVars

\* canMatch(text, pattern) called on the strings as they are
FuzzyCanMatchCall ==
    /\ fz.done
    /\ ~fz.raw
    /\ canMatch(fz.text, fz.pattern)
    /\ fz' = [fz EXCEPT !.raw = TRUE]
    /\ UNCHANGED <<cmd, stage, pre>>
    /\ UNCHANGED apiVars

NextFuzzy ==
    \/ FuzzyMatchCall
    \/ FuzzyCanMatchCall

SpecFuzzy == InitFuzzy /\ [][NextFuzzy]_vars

\* p is an ordered, possibly non-contiguous, subsequence of t
IsSubsequence(p, t) ==
    \E f \in [1..Len(p) -> 1..Len(t)] :
        /\ \A i, j \in 1..Len(p) : i < j => f[i] < f[j]
        /\ \A i \in 1..Len(p) : t[f[i]] = p[i]

\* C20: fuzzyMatch(text, pattern) is strictly positive exactly when the
\* pattern is non-empty and is a case-insensitive ordered subsequence of
\* the basename of text, and 0 otherwise; canMatch accepts exactly the
\* ordered subsequences, and the scoring pass is positive on what
\* canMatch accepted.
C20_FuzzyPositive ==
    fz.done =>
        /\ fz.score > 0 <=>
              (fz.pattern # <<>>
                 /\ IsSubsequence(ToLower(fz.pattern), ToLower(Base(fz.text))))
        /\ fz.score >= 0
        /\ fz.can <=> IsSubsequence(ToLower(fz.pattern), ToLower(Base(fz.text)))
        /\ fz.raw => IsSubsequence(fz.pattern, fz.text)
        /\ (IsSubsequence(fz.pattern, fz.text) /\ ~fz.raw) => ENABLED FuzzyCanMatchCall
        /\ (fz.can /\ fz.pattern # <<>>) => fz.score > 0

\* "aB" has matched "/ab/a-b": upper case in the pattern, a gap in the
\* basename, and a directory that is not looked at
C20_Witness ==
    /\ fz.done
    /\ fz.text = <<47, 97, 98, 47, 97, 45, 98>>
    /\ fz.pattern = <<97, 66>>
    /\ fz.can
    /\ fz.score > 0
    /\ ~canMatch(fz.text, fz.pattern)

----------------------------------------------------------------------------
(* Empty arguments of fuzzyMatch *)

\* C21: fuzzyMatch(text, "") is 0 for every text, and fuzzyMatch("", pattern)
\* is 0 for every non-empty pattern, patterns of boundary characters such
\* as "." included.
C21_EmptyArguments ==
    fz.done =>
        /\ fz.pattern = <<>> => fz.score = 0
        /\ (fz.text = <<>> /\ fz.pattern # <<>>) => fz.score = 0

----------------------------------------------------------------------------
(* SpecScore: two calls of fuzzyMatch whose scores are compared, as in   *)
(* TestFuzzyMatchScoring                                                  *)

\* the same letter in the other case
SwapCase(c) ==
    IF c >= 97 /\ c <= 122 THEN c - 32
    ELSE IF c >= 65 /\ c <= 90 THEN c + 32
    ELSE c

\* the strings that differ from s in letter case only
CaseVariants(s) ==
    {[i \in 1..Len(s) |-> IF flip[i] THEN SwapCase(s[i]) ELSE s[i]] :
        flip \in [1..Len(s) -> BOOLEAN]}

\* c repeated n times
Repeat(c, n) == [i \in 1..n |-> c]

\* longest run of characters appended to or put in front of a basename
ScoreMaxPad == 8

ScoreMaxLead == 7

\* non-empty patterns over "a", "A"
ScorePatterns == StringsUpTo({97, 65}, FuzzyMaxPattern) \ {<<>>}

\* two inputs that are the same up to letter case
CasePairs ==
    UNION {{[text |-> t, pattern |-> p, text2 |-> t2, pattern2 |-> p2] :
               t2 \in CaseVariants(t), p2 \in CaseVariants(p)} :
           t \in StringsUpTo({97, 65, 45}, FuzzyMaxText) \ {<<>>}, p \in ScorePatterns}

\* one pattern on a basename that starts with it and on a longer basename
\* that holds it (at the start, after "-" or after "b"); "b" fills up
LengthPairs ==
    UNION {UNION {
        {[text |-> q \o Repeat(98, i), pattern |-> p,
          text2 |-> lead \o q2 \o Repeat(98, j), pattern2 |-> p] :
            i \in 0..ScoreMaxPad, j \in 0..(ScoreMaxPad + 1),
            lead \in {<<>>, <<45>>, <<98>>}} :
        q \in {p, [k \in 1..Len(p) |-> SwapCase(p[k])]},
        q2 \in {p, [k \in 1..Len(p) |-> SwapCase(p[k])]}} : p \in ScorePatterns}

\* one pattern on a basename and on the basename behind k times "c"
LeadPairs ==
    {[text |-> b, pattern |-> p, text2 |-> Repeat(99, k) \o b, pattern2 |-> p] :
        b \in StringsUpTo({97, 98, 45}, FuzzyMaxText) \ {<<>>},
        p \in ScorePatterns, k \in 1..ScoreMaxLead}

ScorePairs ==
    CasePairs \cup {c \in LengthPairs : Len(c.text2) > Len(c.text)} \cup LeadPairs

InitScore ==
    /\ InitCommon
    /\ dbOf = [t \in Threads |-> 1]
    /\ StoreOf(1, <<>>)
    /\ dir = [db |-> 0, tmp |-> 0]
    /\ inodes = <<>>
    /\ faults = 0
    /\ cmd = [t \in Threads |-> "api"]
    /\ stage = [t \in Threads |-> "api"]
    /\ \E c \in ScorePairs :
          fz = [NoMatch EXCEPT !.text = c.text, !.pattern = c.pattern,
                               !.text2 = c.text2, !.pattern2 = c.pattern2]

\* score2 := fuzzyMatch(text2, pattern2)
ScoreSecondCall ==
    /\ fz.done
    /\ ~fz.done2
    /\ fz' = [fz EXCEPT !.score2 = fuzzyMatch(fz.text2, fz.pattern2), !.done2 = TRUE]
    /\ UNCHANGED <<cmd, stage, pre>>
    /\ UNCHANGED apiVars

NextScore ==
    \/ FuzzyMatchCall
    \/ ScoreSecondCall

SpecScore == InitScore /\ [][NextScore]_vars

\* the leftmost positions at which the characters of p occur in order in
\* t (p a subsequence of t): the characters a left-to-right scan matches
LeftmostMatch(p, t) ==
    LET Embeddings == {f \in [1..Len(p) -> 1..Len(t)] :
                          /\ \A i, j \in 1..Len(p) : i < j => f[i] < f[j]
                          /\ \A i \in 1..Len(p) : t[f[i]] = p[i]}
    IN  CHOOSE f \in Embeddings : \A g \in Embeddings : \A i \in 1..Len(p) : f[i] <= g[i]

\* the matched characters of the basename that have the case of the pattern
ExactCase(text, pattern) ==
    LET m == LeftmostMatch(ToLower(pattern), ToLower(Base(text)))
    IN  Cardinality({i \in 1..Len(pattern) : pattern[i] = Base(text)[m[i]]})

\* both calls have returned
Compared == fz.done /\ fz.done2

\* C22: acceptance is case-insensitive and scoring rewards exact case: two
\* inputs that are the same up to letter case are both accepted, and their
\* scores differ by exactly 1 per matched character that agrees in case
\* with the pattern in the one input and not in the other, so the input
\* with more exact-case matches scores strictly higher.
C22_CaseBonus ==
    (/\ Compared
     /\ ToLower(fz.text) = ToLower(fz.text2)
     /\ ToLower(fz.pattern) = ToLower(fz.pattern2)
     /\ IsSubsequence(ToLower(fz.pattern), ToLower(Base(fz.text))))
    => /\ fz.score > 0
       /\ fz.score2 > 0
       /\ fz.score - fz.score2
             = ExactCase(fz.text, fz.pattern) - ExactCase(fz.text2, fz.pattern2)

\* "Aa" on "A-a" and on "a-a": one more exact-case match, one point more
C22_Witness ==
    /\ Compared
    /\ fz.text = <<65, 45, 97>>
    /\ fz.text2 = <<97, 45, 97>>
    /\ fz.pattern = <<65, 97>>
    /\ fz.pattern2 = <<65, 97>>
    /\ fz.score = fz.score2 + 1

IsPrefix(p, t) == Len(p) <= Len(t) /\ SubSeq(t, 1, Len(p)) = p

\* C23: a pattern that is a case-insensitive prefix of a basename b1
\* scores strictly higher on b1 than on every longer basename b2 it
\* matches, whether it matches b2 as a non-prefix subsequence or as a
\* prefix again.
C23_PrefixAndShorterWin ==
    (/\ Compared
     /\ fz.pattern = fz.pattern2
     /\ fz.pattern # <<>>
     /\ IsPrefix(ToLower(fz.pattern), ToLower(Base(fz.text)))
     /\ Len(Base(fz.text2)) > Len(Base(fz.text))
     /\ IsSubsequence(ToLower(fz.pattern), ToLower(Base(fz.text2))))
    => fz.score > fz.score2

\* the leading penalty for n skipped characters: 2 each, 12 at most
LeadingPenalty(n) == IF 2 * n > 12 THEN 12 ELSE 2 * n

\* C27: k >= 1 non-matching, non-boundary characters put in front of a
\* basename lower the score by the leading penalty of 2 per skipped
\* character, capped at 12 in total, the other bonuses (the length bonus
\* and the word-boundary bonus of a match at the start) set apart.
C27_LeadingPenalty ==
    (/\ Compared
     /\ fz.pattern = fz.pattern2
     /\ \E k \in 1..Len(fz.text2) : fz.text2 = Repeat(99, k) \o fz.text
     /\ IsSubsequence(ToLower(fz.pattern), ToLower(fz.text)))
    => LET k == Len(fz.text2) - Len(fz.text)
           skipped == LeftmostMatch(ToLower(fz.pattern), ToLower(fz.text))[1] - 1
       IN  fz.score2 - lengthBonus(fz.pattern, fz.text2)
              = fz.score - lengthBonus(fz.pattern, fz.text)
                  - (IF skipped = 0 THEN scoreWordBoundary ELSE 0)
                  - (LeadingPenalty(skipped + k) - LeadingPenalty(skipped))

----------------------------------------------------------------------------
(* calculateFrecency.  A float64 score x is held as the integer           *)
(* x * FactorScale; ages are whole half-lives, where math.Exp gives 2^-k  *)

\* halfLife of 30 days, in the seconds of time.Now().Unix()
HalfLife == 30 * 24 * 60 * 60

FactorScale == 64 * 100

\* recencyFactor = 0.01, the minimum factor
MinFactor == FactorScale \div 100

RECURSIVE Pow2(_)
Pow2(k) == IF k = 0 THEN 1 ELSE 2 * Pow2(k - 1)

\* a decay without the minimum factor
recencyFactorUnfloored(age) ==
    IF age <= 0 THEN FactorScale ELSE FactorScale \div Pow2(age \div HalfLife)

\* recencyFactor: 1.0 unless ageInDays > 0, then
\* math.Exp(-decayRate * ageInDays), and 0.01 when that is below 0.01
\* (the quotient is exact up to 8 half-lives and below MinFactor after)
recencyFactor(age) ==
    IF age <= 0 THEN FactorScale
    ELSE LET f == FactorScale \div Pow2(age \div HalfLife)
         IN  IF f < MinFactor THEN MinFactor ELSE f

\* float64(entry.VisitCount) * recencyFactor, with now = time.Now().Unix()
calculateFrecency(entry, now) ==
    (entry.VisitCount[1] + Limb * entry.VisitCount[2])
        * recencyFactor(now - entry.LastVisited)

----------------------------------------------------------------------------
(* SpecFrecency: calculateFrecency called on one entry at several times, *)
(* as in TestFrecencyCalculation                                          *)

\* highest VisitCount and oldest age (in half-lives) of the ranking checks
RankMaxVisits == 3

RankMaxAge == 8

RankTimes == {k * HalfLife : k \in 0..RankMaxAge}

FrecencyStores ==
    {<<Entry(PathA, U32Of(v), l, 0)>> : v \in 1..RankMaxVisits, l \in {0, HalfLife}}

InitFrecency ==
    /\ InitCommon
    /\ fz = NoMatch
    /\ dbOf = [t \in Threads |-> 1]
    /\ \E recs \in FrecencyStores : StoreOf(1, recs)
    /\ dir = [db |-> 0, tmp |-> 0]
    /\ inodes = <<>>
    /\ faults = 0
    /\ cmd = [t \in Threads |-> "api"]
    /\ stage = [t \in Threads |-> "api"]

\* score := calculateFrecency(entry) at the clock value now
FrecencyCall(t, id, now) ==
    /\ pc[t] = "idle"
    /\ id \in DOMAIN heap
    /\ ret' = [ret EXCEPT ![t] = [err |-> "none", n |-> 0, id |-> id, now |-> now,
                                  score |-> calculateFrecency(heap[id], now)]]
    /\ UNCHANGED <<dbOf, opened, entries, heap, mutex, pc, arg, snap, obs, visits>>
    /\ UNCHANGED fsVars
    /\ UNCHANGED cliVars

NextFrecency == \E t \in Threads, id \in ObjIds, now \in RankTimes : FrecencyCall(t, id, now)

SpecFrecency == InitFrecency /\ [][NextFrecency]_vars

\* t has called calculateFrecency
Scored(t) == "score" \in DOMAIN ret[t]

\* the age of the entry at t's call
AgeAt(t) == ret[t].now - heap[ret[t].id].LastVisited

VisitsAt(t) == heap[ret[t].id].VisitCount[1]

\* what every call satisfies: VisitCount at age 0, never below
\* 0.01 * VisitCount, never zero, and non-increasing in the age
FrecencyBasics ==
    /\ \A t \in Threads : Scored(t) =>
          /\ AgeAt(t) = 0 => ret[t].score = VisitsAt(t) * FactorScale
          /\ ret[t].score >= VisitsAt(t) * MinFactor
          /\ ret[t].score > 0
    /\ \A t, u \in Threads :
          (Scored(t) /\ Scored(u) /\ ret[t].id = ret[u].id /\ AgeAt(t) <= AgeAt(u))
              => ret[t].score >= ret[u].score

\* the score of u's call is half the score of t's call, within the
\* tolerance of one fifth that TestFrecencyCalculation allows
HalfWithinTolerance(t, u) ==
    /\ 10 * ret[u].score >= 4 * ret[t].score
    /\ 10 * ret[u].score <= 6 * ret[t].score

----------------------------------------------------------------------------
(* Query (the fuzzy one): candidates, ranking score, sort, truncation.   *)
(* A combined score x is held as the integer x * 10 * 1000 * FactorScale *)

\* a Query that ranks every entry whatever its fuzzy score
matchesUnfiltered(d, query) == Range(entries[d])

\* the entries Query collects before it sorts: all of them for the empty
\* query, else those with fuzzyMatch(entry.Path, query) > 0
matches(d, query) ==
    IF query = <<>> THEN Range(entries[d])
    ELSE {i \in Range(entries[d]) : fuzzyMatch(heap[i].Path, query) > 0}

\* a combined score that leaves the frecency out
combinedScoreFuzzyOnly(fuzzyScore, frecencyScore) ==
    6 * FactorScale * (IF fuzzyScore > 1000 THEN 1000 ELSE fuzzyScore)

\* normalizedFuzzy := fuzzyScore / 1000.0, at most 1.0;
\* combinedScore := normalizedFuzzy * 0.6 + frecencyScore * 0.4
combinedScore(fuzzyScore, frecencyScore) ==
    LET normalizedFuzzy == IF fuzzyScore > 1000 THEN 1000 ELSE fuzzyScore
    IN  6 * FactorScale * normalizedFuzzy + 4 * 1000 * frecencyScore

\* a sort with the comparison turned round
sortSliceAscending(sorted, score) ==
    \A i, j \in 1..Len(sorted) : i < j => score[sorted[i]] <= score[sorted[j]]

\* sort.Slice with less(i, j) = score(i) > score(j): an order in which no
\* element stands before one of a higher score (ties in any order)
sortSlice(sorted, score) ==
    \A i, j \in 1..Len(sorted) : i < j => score[sorted[i]] >= score[sorted[j]]

\* what Query returned, next to the arguments of the call; err is "panic"
\* when the call ended in a runtime panic
QueryResult(err, list, query, maxResults, now) ==
    [err |-> err, n |-> Len(list), list |-> list,
     query |-> query, maxResults |-> maxResults, now |-> now]

\* Query(query, maxResults); now is the value of time.Now().Unix() during
\* the call.  entries[:maxResults] with a negative maxResults panics
\* (slice bounds out of range); the deferred RUnlock runs all the same.
Query(t, query, maxResults, now) ==
    LET d == dbOf[t]
        found == matches(d, query)
        score == [i \in found |->
                    IF query = <<>> THEN calculateFrecency(heap[i], now)
                    ELSE combinedScore(fuzzyMatch(heap[i].Path, query),
                                       calculateFrecency(heap[i], now))] @@ <<>>
    IN  /\ pc[t] = "idle"
        /\ opened[d]
        /\ NoWriter(d)
        /\ \E sorted \in Orders(found) :
              /\ sortSlice(sorted, score)
              /\ IF Len(sorted) > maxResults /\ maxResults < 0
                 THEN /\ ret' = [ret EXCEPT ![t] =
                                    QueryResult("panic", <<>>, query, maxResults, now)]
                      /\ UNCHANGED <<snap, heap>>
                 ELSE LET list == IF Len(sorted) > maxResults
                                  THEN SubSeq(sorted, 1, maxResults) ELSE sorted
                          sn == [snap EXCEPT ![t] = Range(list)]
                      IN  /\ ret' = [ret EXCEPT ![t] =
                                        QueryResult("none", list, query, maxResults, now)]
                          /\ snap' = sn
                          /\ heap' = Sweep(heap, entries, sn, arg)
        /\ UNCHANGED <<dbOf, opened, entries, mutex, pc, arg, obs, visits>>
        /\ NoFileIO

----------------------------------------------------------------------------
(* SpecQuery: one Query on a store                                       *)

\* the clock value of the queries
RankNow == RankMaxAge * HalfLife

\* "/x/ab" and "/x/b-a"
RankShortPaths == { <<47, 120, 47, 97, 98>>, <<47, 120, 47, 98, 45, 97>> }

\* "/aaaaaaaaaaaaaaaaaaaaa" (21 times "a") and "/a-a- ... -a" (21 times "a")
RankLongPaths ==
    { <<47>> \o Repeat(97, 21),
      <<47>> \o [i \in 1..41 |-> IF i % 2 = 1 THEN 97 ELSE 45] }

\* the paths in the order in which StoreOf lays them out
RankPaths ==
    LET short == CHOOSE o \in Orders(RankShortPaths) : TRUE
        long == CHOOSE o \in Orders(RankLongPaths) : TRUE
    IN  short \o long

\* no entry for the path, or one with 1..RankMaxVisits visits, the last
\* one now, 30 days ago or (short paths only) RankMaxAge half-lives ago
RankEntries(p) ==
    {<<>>} \cup {<<Entry(p, U32Of(v), l, 0)>> :
                    v \in 1..RankMaxVisits,
                    l \in IF p \in RankShortPaths
                          THEN {RankNow, RankNow - HalfLife, 0} ELSE {RankNow}}

\* stores of short paths, and stores of long paths alone or next to the
\* two short paths visited once
RankStores ==
    {e1 \o e2 : e1 \in RankEntries(RankPaths[1]), e2 \in RankEntries(RankPaths[2])}
    \cup
    {e \o e3 \o e4 :
        e \in {<<>>, <<Entry(RankPaths[1], U32One, RankNow, 0),
                       Entry(RankPaths[2], U32One, RankNow, 0)>>},
        e3 \in RankEntries(RankPaths[3]), e4 \in RankEntries(RankPaths[4])}

\* "", "a", "ab", "B", "zz" and 21 times "a"
RankQueries ==
    { <<>>, <<97>>, <<97, 98>>, <<66>>, <<122, 122>>, Repeat(97, 21) }

RankMaxResults == {-1, 0, 1, 2, DefaultMaxResults}

InitQuery ==
    /\ InitCommon
    /\ fz = NoMatch
    /\ dbOf = [t \in Threads |-> 1]
    /\ \E recs \in RankStores : StoreOf(1, recs)
    /\ dir = [db |-> 0, tmp |-> 0]
    /\ inodes = <<>>
    /\ faults = 0
    /\ cmd = [t \in Threads |-> "api"]
    /\ stage = [t \in Threads |-> "api"]

\* the first Query of goroutine 1
QueryCall ==
    /\ "list" \notin DOMAIN ret[1]
    /\ \E query \in RankQueries, maxResults \in RankMaxResults :
          Query(1, query, maxResults, RankNow) /\ UNCHANGED cliVars

NextQuery == QueryCall

SpecQuery == InitQuery /\ [][NextQuery]_vars

\* t has called Query
Queried(t) == "list" \in DOMAIN ret[t]

\* the ranking score of entry i for t's query: the frecency for the empty
\* query, else 0.6 * min(1, fuzzy / 1000) + 0.4 * frecency
RankingScore(t, i) ==
    LET fuzzy == fuzzyMatch(heap[i].Path, ret[t].query)
        frecency == calculateFrecency(heap[i], ret[t].now)
    IN  IF ret[t].query = <<>> THEN 10 * 1000 * frecency
        ELSE 6 * FactorScale * (IF fuzzy > 1000 THEN 1000 ELSE fuzzy)
               + 4 * 1000 * frecency

\* the entries that have a positive fuzzy score for t's query
Matching(t) ==
    {i \in Range(entries[dbOf[t]]) : fuzzyMatch(heap[i].Path, ret[t].query) > 0}

Candidates(t) == IF ret[t].query = <<>> THEN Range(entries[dbOf[t]]) ELSE Matching(t)

\* C24: Query returns the top of the ranking: the result holds candidates
\* only, each once, in descending order of the ranking score, no candidate
\* left out has a strictly higher score than a returned one, and the
\* length is min(maxResults, number of candidates) (maxResults >= 0).
C24_TopOfRanking ==
    \A t \in Threads :
        (Queried(t) /\ ret[t].maxResults >= 0) =>
            LET list == ret[t].list
                cands == Candidates(t)
                n == Cardinality(cands)
                rank == [i \in cands |-> RankingScore(t, i)] @@ <<>>
            IN  /\ ret[t].err = "none"
                /\ \A k \in 1..Len(list) : list[k] \in cands
                /\ \A k, l \in 1..Len(list) : k # l => list[k] # list[l]
                /\ \A k, l \in 1..Len(list) : k < l => rank[list[k]] >= rank[list[l]]
                /\ \A i \in cands \ Range(list) : \A k \in 1..Len(list) :
                      rank[i] <= rank[list[k]]
                /\ Len(list) = IF ret[t].maxResults < n THEN ret[t].maxResults ELSE n

\* Query("a", 2) on four matching entries returned two of them, and the
\* first has a lower fuzzy score but a higher ranking score than the second
C24_Witness ==
    /\ Queried(1)
    /\ ret[1].query = <<97>>
    /\ ret[1].maxResults = 2
    /\ Cardinality(Candidates(1)) = 4
    /\ Len(ret[1].list) = 2
    /\ RankingScore(1, ret[1].list[1]) > RankingScore(1, ret[1].list[2])
    /\ fuzzyMatch(heap[ret[1].list[1]].Path, ret[1].query)
          < fuzzyMatch(heap[ret[1].list[2]].Path, ret[1].query)

\* C25: for a non-empty query the result holds only entries whose fuzzy
\* score is > 0, whatever the visit counts and last visits, and it holds
\* every such entry when maxResults is at least their number.
C25_CandidatesExact ==
    \A t \in Threads :
        (Queried(t) /\ ret[t].err = "none" /\ ret[t].query # <<>>) =>
            /\ Range(ret[t].list) \subseteq Matching(t)
            /\ ret[t].maxResults >= Cardinality(Matching(t))
                  => Range(ret[t].list) = Matching(t)

\* Query("ab", 10) returned "/x/ab" alone although "/x/b-a", which does
\* not match, has more visits and is as recent
C25_Witness ==
    /\ Queried(1)
    /\ ret[1].query = <<97, 98>>
    /\ ret[1].maxResults = DefaultMaxResults
    /\ Len(ret[1].list) = 1
    /\ heap[ret[1].list[1]].Path = <<47, 120, 47, 97, 98>>
    /\ \E i \in Range(entries[1]) :
          /\ heap[i].Path = <<47, 120, 47, 98, 45, 97>>
          /\ heap[i].VisitCount[1] > heap[ret[1].list[1]].VisitCount[1]
          /\ heap[i].LastVisited = heap[ret[1].list[1]].LastVisited

\* C28: Query never fails: for every store, query and maxResults (0 and
\* negative values included) it returns without a runtime failure a list
\* of at most max(0, maxResults) entries.
C28_QueryNeverFails ==
    \A t \in Threads :
        Queried(t) =>
            /\ ret[t].err = "none"
            /\ Len(ret[t].list) <= (IF ret[t].maxResults < 0 THEN 0 ELSE ret[t].maxResults)

\* the position of entry i in t's result, 0 when it is not in it
Position(t, i) ==
    IF i \in Range(ret[t].list)
    THEN CHOOSE k \in 1..Len(ret[t].list) : ret[t].list[k] = i ELSE 0

\* C30: visit count dominates the ranking of a non-empty query: of two
\* matching entries last visited at the time of the query, one with at
\* least 2 more visits is ranked before the other whatever their fuzzy
\* scores: when the other is returned it is returned too, and earlier.
C30_VisitsDominate ==
    \A t \in Threads :
        (Queried(t) /\ ret[t].err = "none" /\ ret[t].query # <<>>) =>
            \A a, b \in Matching(t) :
                (/\ heap[a].LastVisited = ret[t].now
                 /\ heap[b].LastVisited = ret[t].now
                 /\ heap[a].VisitCount[1] >= heap[b].VisitCount[1] + 2
                 /\ Position(t, b) # 0)
                    => /\ Position(t, a) # 0
                       /\ Position(t, a) < Position(t, b)

\* the query of 21 "a": the sparse long path with 3 visits (fuzzy score
\* below 1000) stands before the exact one with 1 visit (fuzzy score
\* above 1000, clamped)
C30_Witness ==
    /\ Queried(1)
    /\ ret[1].query = Repeat(97, 21)
    /\ Len(ret[1].list) = 2
    /\ heap[ret[1].list[1]].VisitCount[1] = 3
    /\ heap[ret[1].list[2]].VisitCount[1] = 1
    /\ fuzzyMatch(heap[ret[1].list[1]].Path, ret[1].query) < 1000
    /\ fuzzyMatch(heap[ret[1].list[2]].Path, ret[1].query) > 1000

----------------------------------------------------------------------------
(* SpecLive: two goroutines of one process, each calling one public      *)
(* operation of the store again and again; a call first waits for        *)
(* db.mutex, then runs, then returns.  cmd[t] is the operation goroutine *)
(* t calls; stage[t] is "api" outside a call, "called" while the call    *)
(* waits for the lock and "running" while it holds it.                   *)

LiveOps == {"AddVisit", "Query", "GetAll", "RemoveDirectory", "CleanupMissing",
            "Save", "Close"}

\* the operations that take db.mutex.Lock(); the others take RLock()
WriterOps == {"AddVisit", "RemoveDirectory", "CleanupMissing"}

Waiting(t, op) == stage[t] = "called" /\ cmd[t] = op

\* sync.RWMutex: a blocked Lock call keeps new readers from acquiring
WriterWaiting(d) ==
    \E u \in Threads : dbOf[u] = d /\ stage[u] = "called" /\ cmd[u] \in WriterOps

\* the store is empty or holds "/a"; one I/O failure may happen.  Save and
\* Close are called by goroutine 1; two overlapping saves are goroutine 1
\* in Save and goroutine 2 in Close on the empty store.
InitLive ==
    /\ InitCommon
    /\ fz = NoMatch
    /\ dbOf = [t \in Threads |-> 1]
    /\ \E recs \in {<<>>, <<Entry(PathA, U32One, 0, 0)>>} : StoreOf(1, recs)
    /\ dir = [db |-> 0, tmp |-> 0]
    /\ inodes = <<>>
    /\ faults = 1
    /\ cmd \in [Threads -> LiveOps]
    /\ cmd[2] \in {"Save", "Close"} =>
          (cmd[2] = "Close" /\ cmd[1] = "Save" /\ entries[1] = <<>>)
    /\ stage = [t \in Threads |-> "api"]

\* the goroutine calls its operation.  (AddVisit is called only while the
\* visits the model counts are not used up by the store and the waiting
\* calls.)
LiveCall(t) ==
    /\ stage[t] = "api"
    /\ cmd[t] = "AddVisit" =>
          visits[dbOf[t]][PathA].n
             + Cardinality({u \in Threads : Waiting(u, "AddVisit")}) < MaxVisits
    /\ stage' = [stage EXCEPT ![t] = "called"]
    /\ UNCHANGED <<cmd, pre, fz>>
    /\ UNCHANGED apiVars

\* the call of t goes on, or has returned
LiveStage(t) ==
    /\ stage' = [stage EXCEPT ![t] = IF pc'[t] = "idle" THEN "api" ELSE "running"]
    /\ UNCHANGED <<cmd, pre, fz>>

LiveAddVisit(t) == Waiting(t, "AddVisit") /\ AddVisit(t, PathA, 0) /\ LiveStage(t)

LiveAddVisitStamp(t) == stage[t] = "running" /\ AddVisitStamp(t) /\ LiveStage(t)

LiveRemoveDirectory(t) ==
    Waiting(t, "RemoveDirectory") /\ RemoveDirectory(t, PathA) /\ LiveStage(t)

LiveCleanupMissing(t) ==
    /\ Waiting(t, "CleanupMissing")
    /\ \E stat \in [DOMAIN entries[dbOf[t]] -> StatResults] : CleanupMissing(t, stat)
    /\ LiveStage(t)

LiveGetAll(t) ==
    Waiting(t, "GetAll") /\ ~WriterWaiting(dbOf[t]) /\ GetAll(t) /\ LiveStage(t)

LiveQuery(t) ==
    /\ Waiting(t, "Query")
    /\ ~WriterWaiting(dbOf[t])
    /\ Query(t, <<>>, DefaultMaxResults, 0)
    /\ LiveStage(t)

\* Close is Save
LiveSaveBegin(t) ==
    /\ Waiting(t, "Save") \/ Waiting(t, "Close")
    /\ ~WriterWaiting(dbOf[t])
    /\ SaveBegin(t)
    /\ LiveStage(t)

LiveSaveCreate(t) == stage[t] = "running" /\ SaveCreate(t) /\ LiveStage(t)

LiveSaveWrite(t) == stage[t] = "running" /\ SaveWrite(t) /\ LiveStage(t)

LiveSaveClose(t) == stage[t] = "running" /\ SaveClose(t) /\ LiveStage(t)

LiveSaveRename(t) == stage[t] = "running" /\ SaveRename(t) /\ LiveStage(t)

\* t gets the lock it waits for
LiveAcquire(t) ==
    \/ LiveAddVisit(t)
    \/ LiveRemoveDirectory(t)
    \/ LiveCleanupMissing(t)
    \/ LiveGetAll(t)
    \/ LiveQuery(t)
    \/ LiveSaveBegin(t)

\* t, holding the lock, takes its next step
LiveStep(t) ==
    \/ LiveAddVisitStamp(t)
    \/ LiveSaveCreate(t)
    \/ LiveSaveWrite(t)
    \/ LiveSaveClose(t)
    \/ LiveSaveRename(t)

NextLive ==
    \/ \E t \in Threads : LiveCall(t)
    \/ \E t \in Threads : LiveAddVisit(t)
    \/ \E t \in Threads : LiveAddVisitStamp(t)
    \/ \E t \in Threads : LiveRemoveDirectory(t)
    \/ \E t \in Threads : LiveCleanupMissing(t)
    \/ \E t \in Threads : LiveGetAll(t)
    \/ \E t \in Threads : LiveQuery(t)
    \/ \E t \in Threads : LiveSaveBegin(t)
    \/ \E t \in Threads : LiveSaveCreate(t)
    \/ \E t \in Threads : LiveSaveWrite(t)
    \/ \E t \in Threads : LiveSaveClose(t)
    \/ \E t \in Threads : LiveSaveRename(t)

\* the Go scheduler runs every goroutine that can run; a goroutine that
\* waits for the mutex gets it if it can be taken again and again (the
\* mutex hands over to its waiters)
SpecLive ==
    /\ InitLive
    /\ [][NextLive]_vars
    /\ \A t \in Threads : WF_vars(LiveStep(t)) /\ SF_vars(LiveAcquire(t))

\* t holds db.mutex, for writing or for reading
Holds(t) == mutex[dbOf[t]].w = t \/ t \in mutex[dbOf[t]].r

\* C29: no deadlock: a goroutine holds the lock only inside a call that
\* took it (once: it is taken by a goroutine that does not hold it) and
\* holds none after any return, error returns of Save included; so under
\* a fair scheduler every call eventually returns.
C29_NoDeadlock ==
    /\ [](\A t \in Threads : Holds(t) <=> stage[t] = "running")
    /\ [][\A t \in Threads : (~Holds(t) /\ Holds(t)') => stage[t] = "called"]_vars
    /\ \A t \in Threads : (stage[t] = "called") ~> (stage[t] = "api")

\* goroutine 2 waits in AddVisit for the lock that goroutine 1 holds in
\* Save, and a Save has returned an error before
C29_Witness ==
    /\ Waiting(2, "AddVisit")
    /\ 1 \in mutex[1].r
    /\ pc[1] = "write"
    /\ faults = 0

====
